---- MODULE Spec2Model ----
(***************************************************************************)
(* term-wrapper: a PTY session engine.                                     *)
(*                                                                         *)
(*   ScreenBuffer   (term_wrapper/screen_buffer.py)  the virtual screen    *)
(*   TerminalSession(term_wrapper/session_manager.py) raw buffer + screen  *)
(*   Terminal       (term_wrapper/terminal.py)       PTY, child, read loop *)
(*                                                                         *)
(* Two specifications share the variables:                                 *)
(*   SpecScreen  a ScreenBuffer fed arbitrary chunks by process_output     *)
(*   Spec        one Terminal with its session, its child process, its     *)
(*               read-loop tasks and the drains of its raw buffer          *)
(* Python code between two awaits runs without interleaving on the event   *)
(* loop, so each action is one such run.                                   *)
(***************************************************************************)
EXTENDS Integers, Sequences, FiniteSets, TLC

(***************************************************************************)
(* Bounds of the model                                                     *)
(***************************************************************************)
\* grid of the ScreenBuffer under check
Rows == 2
Cols == 3
\* length of the chunks made of plain characters
MaxLen == 2
\* number of process_output calls in a behaviour of SpecScreen
MaxCalls == 2
\* number of bytes written to the terminal in a behaviour of Spec
MaxWrites == 1
\* number of create_session calls in a behaviour of SpecRegistry
MaxSessions == 2
\* number of handlers that each serve one DELETE request in SpecRegistry
MaxHandlers == 2
\* number of chunks a session of SpecRegistry reads
MaxChunks == 1
\* number of spawn calls on the Terminal (spawn k makes pid k and fd k)
MaxSpawns == 1
\* number of start_reading calls (read-loop tasks created)
MaxTasks == 2
\* number of writes the child processes make to their terminals
MaxEmit == 2

(***************************************************************************)
(* Characters.  A chunk of text is a sequence of one-character strings;    *)
(* the control characters have names.                                      *)
(***************************************************************************)
ESC == "ESC"
LF  == "LF"
CR  == "CR"
TAB == "TAB"
BS  == "BS"
BEL == "BEL"
VT  == "VT"
SP  == " "

\* the whitespace str.rstrip() strips that can stand in a cell: write_char
\* stores the blank and the vertical tab; LF, CR and TAB are never stored
Whitespace == {SP, VT}

\* screen_buffer.py:232  output[j] in '0123456789;?'
DigitChars == {"0", "1", "2", "3", "4", "5", "6", "7", "8", "9"}
ParamChars == DigitChars \cup {";", "?"}

DigitVal(c) ==
    CASE c = "0" -> 0 [] c = "1" -> 1 [] c = "2" -> 2 [] c = "3" -> 3
      [] c = "4" -> 4 [] c = "5" -> 5 [] c = "6" -> 6 [] c = "7" -> 7
      [] c = "8" -> 8 [] c = "9" -> 9

\* int(s) raises ValueError unless s is a non-empty run of digits (the only
\* characters a CSI body can hold before its final are digits, ';' and '?')
IsInt(s) == Len(s) > 0 /\ \A k \in 1..Len(s) : s[k] \in DigitChars

RECURSIVE IntOf(_)
IntOf(s) ==
    IF Len(s) = 0 THEN 0
    ELSE 10 * IntOf(SubSeq(s, 1, Len(s) - 1)) + DigitVal(s[Len(s)])

Min(a, b) == IF a < b THEN a ELSE b
Max(a, b) == IF a > b THEN a ELSE b

\* str.split(';'): the parts between the separators
RECURSIVE SplitSemi(_)
SplitSemi(s) ==
    IF \A k \in 1..Len(s) : s[k] # ";" THEN <<s>>
    ELSE LET p == CHOOSE k \in 1..Len(s) :
                      s[k] = ";" /\ \A m \in 1..(k - 1) : s[m] # ";"
         IN  <<SubSeq(s, 1, p - 1)>> \o SplitSemi(SubSeq(s, p + 1, Len(s)))

(***************************************************************************)
(* ScreenBuffer.  A buffer value sb is a record                            *)
(*   rows, cols, cursor_row, cursor_col (0-indexed, as in the code),       *)
(*   screen (rows sequences of cols cells), saved_cursor (<<>> while the   *)
(*   attribute does not exist, else <<row, col>>).                         *)
(***************************************************************************)
NoCursor == <<>>

BlankRow(cols) == [c \in 1..cols |-> SP]

\* ScreenBuffer.__init__
NewScreenBuffer(rows, cols) ==
    [rows |-> rows, cols |-> cols, cursor_row |-> 0, cursor_col |-> 0,
     screen |-> [r \in 1..rows |-> BlankRow(cols)],
     saved_cursor |-> NoCursor]

\* ScreenBuffer.clear
clear_keeps_cursor(sb) ==
    [sb EXCEPT !.screen = [r \in 1..sb.rows |-> BlankRow(sb.cols)]]

clear(sb) ==
    [sb EXCEPT !.screen = [r \in 1..sb.rows |-> BlankRow(sb.cols)],
               !.cursor_row = 0, !.cursor_col = 0]

\* ScreenBuffer.clear_line (row = cursor_row): cursor to end of row
clear_line_from_next(sb) ==
    IF 0 <= sb.cursor_row /\ sb.cursor_row < sb.rows
    THEN [sb EXCEPT !.screen[sb.cursor_row + 1] =
              [c \in 1..sb.cols |-> IF c - 1 > sb.cursor_col THEN SP ELSE @[c]]]
    ELSE sb

clear_line(sb) ==
    IF 0 <= sb.cursor_row /\ sb.cursor_row < sb.rows
    THEN [sb EXCEPT !.screen[sb.cursor_row + 1] =
              [c \in 1..sb.cols |-> IF c - 1 >= sb.cursor_col THEN SP ELSE @[c]]]
    ELSE sb

\* ScreenBuffer.clear_line_from_start: start of row to cursor, inclusive
clear_line_from_start(sb) ==
    IF 0 <= sb.cursor_row /\ sb.cursor_row < sb.rows
    THEN [sb EXCEPT !.screen[sb.cursor_row + 1] =
              [c \in 1..sb.cols |->
                  IF c - 1 < Min(sb.cursor_col + 1, sb.cols) THEN SP ELSE @[c]]]
    ELSE sb

\* ScreenBuffer.clear_entire_line
clear_entire_line(sb) ==
    IF 0 <= sb.cursor_row /\ sb.cursor_row < sb.rows
    THEN [sb EXCEPT !.screen[sb.cursor_row + 1] = BlankRow(sb.cols)]
    ELSE sb

\* the branch of write_char for a regular character
WriteCharStepPrints(sb, char) ==
    LET inGrid == /\ 0 <= sb.cursor_row /\ sb.cursor_row < sb.rows
                  /\ 0 <= sb.cursor_col /\ sb.cursor_col < sb.cols
        put == IF inGrid
               THEN [sb EXCEPT
                       !.screen[sb.cursor_row + 1][sb.cursor_col + 1] = char]
               ELSE sb
    IN  [put EXCEPT !.cursor_col = @ + 1]

\* a step that takes the cursor one column on
WriteCharStepTabOne(sb, char) == [sb EXCEPT !.cursor_col = @ + 1]

\* the part of write_char that depends on the character
WriteCharStep(sb, char) ==
    CASE char = LF  -> [sb EXCEPT !.cursor_row = @ + 1, !.cursor_col = 0]
      [] char = CR  -> [sb EXCEPT !.cursor_col = 0]
      [] char = TAB -> [sb EXCEPT !.cursor_col = ((@ \div 8) + 1) * 8]
      [] char = BS  -> IF sb.cursor_col > 0
                       THEN [sb EXCEPT !.cursor_col = @ - 1] ELSE sb
      [] OTHER ->
           LET inGrid == /\ 0 <= sb.cursor_row /\ sb.cursor_row < sb.rows
                         /\ 0 <= sb.cursor_col /\ sb.cursor_col < sb.cols
               put == IF inGrid
                      THEN [sb EXCEPT
                              !.screen[sb.cursor_row + 1][sb.cursor_col + 1] = char]
                      ELSE sb
           IN  [put EXCEPT !.cursor_col = @ + 1]

\* ScreenBuffer.write_char: the character, then overflow, then the clamp
write_char_unwrapped(sb, char) == WriteCharStep(sb, char)

write_char_unclamped(sb, char) ==
    LET s1 == WriteCharStep(sb, char)
    IN  IF s1.cursor_col >= s1.cols
        THEN [s1 EXCEPT !.cursor_col = 0, !.cursor_row = @ + 1]
        ELSE s1

write_char(sb, char) ==
    LET s1 == WriteCharStep(sb, char)
        s2 == IF s1.cursor_col >= s1.cols
              THEN [s1 EXCEPT !.cursor_col = 0, !.cursor_row = @ + 1]
              ELSE s1
    IN  IF s2.cursor_row >= s2.rows
        THEN [s2 EXCEPT !.cursor_row = s2.rows - 1]
        ELSE s2

\* move_cursor without its clamp
move_cursor_unclamped(sb, row, col) ==
    [sb EXCEPT !.cursor_row = row, !.cursor_col = col]

\* ScreenBuffer.move_cursor
move_cursor(sb, row, col) ==
    [sb EXCEPT !.cursor_row = Max(0, Min(row, sb.rows - 1)),
               !.cursor_col = Max(0, Min(col, sb.cols - 1))]

\* ScreenBuffer.move_cursor_relative
move_cursor_relative_swapped(sb, row_delta, col_delta) ==
    move_cursor(sb, sb.cursor_row + col_delta, sb.cursor_col + row_delta)

move_cursor_relative(sb, row_delta, col_delta) ==
    move_cursor(sb, sb.cursor_row + row_delta, sb.cursor_col + col_delta)

\* A result of processing: the buffer, and whether an exception left the call
Ok(sb)     == [sb |-> sb, raised |-> FALSE]
Raised(sb) == [sb |-> sb, raised |-> TRUE]

\* ESC [ row ; col H|f : int() of a part that is not a number raises
CursorPositionZeroBased(sb, body) ==
    LET parts  == SplitSemi(body)
        p0     == parts[1]
        p1     == IF Len(parts) > 1 THEN parts[2] ELSE <<>>
        row    == IF Len(p0) > 0 /\ IsInt(p0) THEN IntOf(p0) ELSE 0
        col    == IF Len(p1) > 0 /\ IsInt(p1) THEN IntOf(p1) ELSE 0
    IN  Ok(move_cursor(sb, row, col))

CursorPosition(sb, body) ==
    LET parts  == SplitSemi(body)
        p0     == parts[1]
        p1     == IF Len(parts) > 1 THEN parts[2] ELSE <<>>
        bad0   == Len(p0) > 0 /\ ~IsInt(p0)
        bad1   == Len(parts) > 1 /\ Len(p1) > 0 /\ ~IsInt(p1)
        row    == IF Len(p0) > 0 THEN IntOf(p0) - 1 ELSE 0
        col    == IF Len(parts) > 1 /\ Len(p1) > 0 THEN IntOf(p1) - 1 ELSE 0
    IN  IF bad0 \/ bad1 THEN Raised(sb) ELSE Ok(move_cursor(sb, row, col))

\* ESC [ n A|B|C|D : n = int(body) if body else 1
RelativeMove(sb, body, final) ==
    IF Len(body) > 0 /\ ~IsInt(body) THEN Raised(sb)
    ELSE LET n == IF Len(body) > 0 THEN IntOf(body) ELSE 1
         IN  CASE final = "A" -> Ok(move_cursor_relative(sb, 0 - n, 0))
               [] final = "B" -> Ok(move_cursor_relative(sb, n, 0))
               [] final = "C" -> Ok(move_cursor_relative(sb, 0, n))
               [] final = "D" -> Ok(move_cursor_relative(sb, 0, 0 - n))

\* ESC [ J / ESC [ 0 J : cursor to end of row, and every row below
ClearToEndOfScreen(sb) ==
    LET s1 == clear_line(sb)
    IN  [s1 EXCEPT !.screen =
            [r \in 1..s1.rows |->
                IF r - 1 >= s1.cursor_row + 1 THEN BlankRow(s1.cols) ELSE @[r]]]

\* ESC [ s : self.saved_cursor = (self.cursor_row, self.cursor_col)
SaveCursor(sb) ==
    [sb EXCEPT !.saved_cursor = <<sb.cursor_row, sb.cursor_col>>]

\* ESC [ u : the saved cursor, when there is one
RestoreCursorIgnored(sb) == sb

RestoreCursor(sb) ==
    IF sb.saved_cursor # NoCursor
    THEN [sb EXCEPT !.cursor_row = sb.saved_cursor[1],
                    !.cursor_col = sb.saved_cursor[2]]
    ELSE sb

\* ScreenBuffer.process_ansi_escape, for a sequence that starts with '['
\* (process_output passes no other); csi_body is what follows the '['.
process_ansi_escape(sb, sequence) ==
    LET csi_body == SubSeq(sequence, 2, Len(sequence))
        final    == csi_body[Len(csi_body)]
        body     == SubSeq(csi_body, 1, Len(csi_body) - 1)
    IN  CASE final \in {"H", "f"}            -> CursorPosition(sb, body)
          [] final \in {"A", "B", "C", "D"}  -> RelativeMove(sb, body, final)
          [] csi_body = <<"2", "J">>         -> Ok(clear(sb))
          [] csi_body \in {<<"J">>, <<"0", "J">>} -> Ok(ClearToEndOfScreen(sb))
          [] csi_body \in {<<"K">>, <<"0", "K">>} -> Ok(clear_line(sb))
          [] csi_body = <<"1", "K">>         -> Ok(clear_line_from_start(sb))
          [] csi_body = <<"2", "K">>         -> Ok(clear_entire_line(sb))
          [] csi_body = <<"s">>              -> Ok(SaveCursor(sb))
          [] csi_body = <<"u">>              -> Ok(RestoreCursor(sb))
          [] OTHER -> Ok(sb)

\* the scan of line 231-233: the first index from j on that holds no
\* parameter character, Len(output) + 1 when there is none
RECURSIVE ScanParams(_, _)
ScanParams(output, j) ==
    IF j <= Len(output) /\ output[j] \in ParamChars
    THEN ScanParams(output, j + 1) ELSE j

\* the scan of line 253-255 (ESC ? ...): up to one of h, l, H
RECURSIVE ScanDecPrivate(_, _)
ScanDecPrivate(output, j) ==
    IF j <= Len(output) /\ output[j] \notin {"h", "l", "H"}
    THEN ScanDecPrivate(output, j + 1) ELSE j

\* one round of the while loop of ScreenBuffer.process_output at the
\* (1-indexed) position i: the buffer it leaves, whether an exception left
\* it, and the position of the next round
LoopBody(sb, output, i) ==
    LET char == output[i]
        at(s, n) == [sb |-> s, raised |-> FALSE, i |-> n]
    IN
    IF char = ESC /\ i + 1 <= Len(output)
    THEN LET nxt == output[i + 1] IN
         CASE nxt = "[" ->
                LET j == ScanParams(output, i + 2) IN
                IF j <= Len(output)
                THEN LET r == process_ansi_escape(sb, SubSeq(output, i + 1, j))
                     IN  [sb |-> r.sb, raised |-> r.raised, i |-> j + 1]
                ELSE at(sb, i + 2)
           [] nxt = "(" -> at(sb, i + 3)
           [] nxt \in {"=", ">", "<"} -> at(sb, i + 2)
           [] nxt = "?" ->
                LET j == ScanDecPrivate(output, i + 2) IN
                at(sb, IF j <= Len(output) THEN j + 1 ELSE j)
           [] OTHER -> at(sb, i + 2)
    ELSE at(write_char(sb, char), i + 1)

\* the while loop of ScreenBuffer.process_output from (1-indexed) position i
RECURSIVE ProcessFrom(_, _, _)
ProcessFrom(sb, output, i) ==
    IF i > Len(output) THEN Ok(sb)
    ELSE LET r == LoopBody(sb, output, i)
         IN  IF r.raised THEN Raised(r.sb)
             ELSE ProcessFrom(r.sb, output, r.i)

\* ScreenBuffer.process_output
process_output(sb, output) == ProcessFrom(sb, output, 1)

\* ScreenBuffer.get_screen_lines: each row without its trailing blanks
RStripNothing(row) == row

RECURSIVE RStrip(_)
RStrip(row) ==
    IF Len(row) > 0 /\ row[Len(row)] \in Whitespace
    THEN RStrip(SubSeq(row, 1, Len(row) - 1)) ELSE row

get_screen_lines(sb) == [r \in 1..sb.rows |-> RStrip(sb.screen[r])]



(***************************************************************************)
(* Bytes and text.  The PTY carries bytes; add_output decodes a chunk with *)
(* data.decode('utf-8', errors='replace').  xC3 xA9 is the two-byte        *)
(* encoding of one character; a lead byte without its continuation, or a   *)
(* continuation alone, becomes U+FFFD.                                     *)
(***************************************************************************)
LeadByte == "xC3"
ContByte == "xA9"
EAcute   == "e'"
REPL     == "uFFFD"

RECURSIVE Decode(_)
Decode(data) ==
    IF Len(data) = 0 THEN <<>>
    ELSE IF data[1] = LeadByte
         THEN IF Len(data) >= 2 /\ data[2] = ContByte
              THEN <<EAcute>> \o Decode(SubSeq(data, 3, Len(data)))
              ELSE <<REPL>> \o Decode(SubSeq(data, 2, Len(data)))
         ELSE IF data[1] = ContByte
              THEN <<REPL>> \o Decode(SubSeq(data, 2, Len(data)))
              ELSE <<data[1]>> \o Decode(SubSeq(data, 2, Len(data)))

\* b"".join(chunks)
RECURSIVE Join(_)
Join(chunks) ==
    IF Len(chunks) = 0 THEN <<>> ELSE chunks[1] \o Join(Tail(chunks))

\* what the child processes write to their terminals: the n-th write of all,
\* each of other bytes than the ones before, so that order shows
EmitChunk(n) ==
    IF n % 2 = 1 THEN <<"a", LeadByte>> ELSE <<ContByte, "b">>

\* terminal.py:165  os.read(self.master_fd, 4096)
ReadSize == 4096

(***************************************************************************)
(* State                                                                   *)
(***************************************************************************)
None == 0

VARIABLES
    \* ScreenBuffer of the session
    screen_buffer,  \* TerminalSession.screen_buffer (a ScreenBuffer value)
    sb_raised,      \* whether the last process_output call raised
    sb_calls,       \* number of process_output calls made in SpecScreen
    \* Terminal
    running,        \* Terminal._running
    master_fd,      \* Terminal.master_fd (None or an fd)
    pid,            \* Terminal.pid (None or a pid)
    read_task,      \* Terminal._read_task (None or a task)
    kill_pc,        \* "idle", or "waitpid" while kill() blocks in os.waitpid
    exc,            \* exception that left the last call ("" when it returned)
    exc_call,       \* the call that exception left ("" when it returned)
    \* asyncio tasks running Terminal._read_loop
    tasks,          \* task -> "none" | "created" | "select" | "ready" | "timeout"
                    \*         | "ebadf" | "typeerr" | "done" | "failed" | "cancelled"
    sel_fd,         \* task -> the fd its pending select.select was given
    cancels,        \* task -> number of times a CancelledError was thrown into it
    \* operating system
    fd_open,        \* fd -> whether the descriptor is open
    fd_closes,      \* fd -> number of os.close calls made on it
    child,          \* pid -> "none" | "running" | "zombie" | "reaped"
    ignores_term,   \* pid -> whether the child ignores SIGTERM
    term_sent,      \* pid -> whether a SIGTERM is pending for the child
    pty_buf,        \* fd -> bytes the child wrote that no read has returned yet
    \* TerminalSession
    output_buffer,  \* TerminalSession.output_buffer (list of chunks)
    last_out,       \* bytes the last get_output returned
    last_clear,     \* the clear argument of the last get_output
    last_op,        \* last operation on the raw buffer: "none" | "append" | "drain"
    \* history
    h_emitted,      \* fd -> all bytes the child wrote to it, in order
    h_reads,        \* the chunks os.read returned, in order: [fd, data, task]
    h_drained,      \* all bytes returned by clearing drains, in order
    emits,          \* number of writes by the children
    h_written,      \* fd -> all bytes os.write put on it, in order
    h_dead,         \* whether is_alive() returned False since the last spawn
    teardown,       \* how the Terminal was torn down since the last spawn:
                    \* "none" | "startup" | "eof" | "kill"
    \* SessionManager and the sessions it created (SpecRegistry)
    sessions,       \* SessionManager.sessions: id -> the TerminalSession object
    heap,           \* object -> the TerminalSession registered under an id:
                    \* [terminal, output_buffer, screen_buffer]
    uuid_count,     \* number of uuid4() values drawn
    forks,          \* number of pty.fork() calls made
    proc,           \* pid -> "none" | "running" | "zombie" | "reaped"
    open_fds,       \* the master fds open in the server process
    closes,         \* fd -> number of os.close calls made on it
    req,            \* handler -> its DELETE request: [pc, id, obj, was, fd, ret]
    reg_ret,        \* what the last create_session or get_output call gave
    reg_reads,      \* object -> number of chunks its read loop has read
    reg_written,    \* fd -> all bytes the input handler wrote to it, in order
    winsize,        \* fd -> the window size last set on the PTY: <<rows, cols>>
    \* the websocket relay of the session (SpecRelay)
    relay           \* [ws, send, recv, peer, inbox, marker, drained]

screenVars == <<screen_buffer, sb_raised, sb_calls>>
termVars   == <<running, master_fd, pid, read_task, kill_pc, exc, exc_call>>
taskVars   == <<tasks, sel_fd, cancels>>
osVars     == <<fd_open, fd_closes, child, ignores_term, term_sent, pty_buf>>
sessVars   == <<output_buffer, last_out, last_clear, last_op>>
histVars   == <<h_emitted, h_reads, h_drained, emits, h_written, h_dead, teardown>>
regVars    == <<sessions, heap, uuid_count, forks, proc, open_fds, closes, req,
                reg_ret, reg_reads, reg_written, winsize, relay>>

vars == <<screen_buffer, sb_raised, sb_calls,
          running, master_fd, pid, read_task, kill_pc, exc, exc_call,
          tasks, sel_fd, cancels,
          fd_open, fd_closes, child, ignores_term, term_sent, pty_buf,
          output_buffer, last_out, last_clear, last_op,
          h_emitted, h_reads, h_drained, emits, h_written, h_dead, teardown,
          sessions, heap, uuid_count, forks, proc, open_fds, closes, req,
          reg_ret, reg_reads, reg_written, winsize, relay>>

Gens    == 1..MaxSpawns
TaskIds == 1..MaxTasks
Forks    == 1..MaxSessions
Handlers == 1..MaxHandlers

\* a handler that has no request
NoRequest == [pc |-> "idle", id |-> None, obj |-> None, was |-> FALSE,
              fd |-> None, ret |-> "none"]

\* no websocket was opened on the session
NoRelay == [ws |-> "none", send |-> "none", recv |-> "none",
            peer |-> "none", inbox |-> <<>>, marker |-> FALSE, drained |-> <<>>]

\* Terminal.__init__, TerminalSession.__init__ (create_session, before spawn)
InitRest ==
    /\ sb_raised = FALSE
    /\ sb_calls = 0
    /\ running = FALSE
    /\ master_fd = None
    /\ pid = None
    /\ read_task = None
    /\ kill_pc = "idle"
    /\ exc = ""
    /\ exc_call = ""
    /\ tasks = [t \in TaskIds |-> "none"]
    /\ sel_fd = [t \in TaskIds |-> None]
    /\ cancels = [t \in TaskIds |-> 0]
    /\ fd_open = [g \in Gens |-> FALSE]
    /\ fd_closes = [g \in Gens |-> 0]
    /\ child = [g \in Gens |-> "none"]
    /\ ignores_term = [g \in Gens |-> FALSE]
    /\ term_sent = [g \in Gens |-> FALSE]
    /\ pty_buf = [g \in Gens |-> <<>>]
    /\ output_buffer = <<>>
    /\ last_out = <<>>
    /\ last_clear = FALSE
    /\ last_op = "none"
    /\ h_emitted = [g \in Gens |-> <<>>]
    /\ h_reads = <<>>
    /\ h_drained = <<>>
    /\ emits = 0
    /\ h_written = [g \in Gens |-> <<>>]
    /\ h_dead = FALSE
    /\ teardown = "none"
    /\ sessions = <<>>
    /\ heap = <<>>
    /\ uuid_count = 0
    /\ forks = 0
    /\ proc = [p \in Forks |-> "none"]
    /\ open_fds = {}
    /\ closes = [f \in Forks |-> 0]
    /\ req = [h \in Handlers |-> NoRequest]
    /\ reg_ret = [call |-> "none", exc |-> "", id |-> None, out |-> <<>>]
    /\ reg_reads = [n \in Forks |-> 0]
    /\ reg_written = [f \in Forks |-> <<>>]
    /\ winsize = [f \in Forks |-> <<0, 0>>]
    /\ relay = NoRelay

Init == screen_buffer = NewScreenBuffer(Rows, Cols) /\ InitRest


(***************************************************************************)
(* The chunks fed to process_output in SpecScreen: every text of plain     *)
(* characters up to MaxLen, every CSI sequence ESC [ params final over the *)
(* parameter strings and finals below, alone and followed by a printable   *)
(* character, the CSI sequences cut before their final, the other          *)
(* introducers, and the texts and sequences defined below.                 *)
(***************************************************************************)
PlainChars == {"x", LF, CR, TAB, BS, ESC, VT}

RECURSIVE SeqsUpTo(_, _)
SeqsUpTo(S, n) ==
    IF n = 0 THEN {<<>>}
    ELSE LET shorter == SeqsUpTo(S, n - 1)
         IN  shorter \cup {Append(s, c) : s \in shorter, c \in S}

PlainChunks == SeqsUpTo(PlainChars, MaxLen) \ {<<>>}

CsiParams == {<<>>, <<"0">>, <<"1">>, <<"2">>, <<"9">>, <<";">>,
              <<"2", ";", "3">>, <<"?", "1">>}
CsiFinals == {"H", "f", "A", "B", "C", "D", "J", "K", "s", "u", "m", "h", "c"}

CsiChunks == {<<ESC, "[">> \o p \o <<f>> : p \in CsiParams, f \in CsiFinals}
CsiThenText == {s \o <<"x">> : s \in CsiChunks}
CutChunks == {<<ESC, "[">> \o p : p \in CsiParams}
OtherEscChunks == {<<ESC, "(", "B", "x">>, <<ESC, "(">>, <<ESC, "=", "x">>,
                   <<ESC, ">">>, <<ESC, "?", "1", "h", "x">>, <<ESC, "?", "1">>,
                   <<ESC, "]", "0", "x">>}

\* printable text: the first n letters, for every n up to one row more than
\* the grid holds
Letters == <<"a", "b", "c", "d", "e", "f", "g", "h", "i", "j", "k", "l",
             "m", "n", "o", "p", "q", "r", "s", "t", "u", "v", "w", "z">>
Run(n) == [k \in 1..n |-> Letters[((k - 1) % Len(Letters)) + 1]]
PrintableRuns == {Run(n) : n \in 1..(Rows * Cols + Cols)}

\* sequences process_ansi_escape does not recognize and introducers other
\* than ESC [ : device attributes and kitty keyboard replies (ESC[>c, ESC[<u),
\* cursor style (ESC[ q), window title (ESC]0;t BEL), DEC private modes,
\* status report, character set, keypad modes, reverse index
UnknownSeqs == {<<ESC, "[", ">", "c">>, <<ESC, "[", "<", "u">>,
                <<ESC, "[", SP, "q">>, <<ESC, "]", "0", ";", "t", BEL>>,
                <<ESC, "[", "?", "2", "5", "h">>, <<ESC, "[", "5", "n">>,
                <<ESC, "(", "B">>, <<ESC, "=">>, <<ESC, ">">>,
                <<ESC, "?", "1", "h">>, <<ESC, "M">>}
UnknownThenText == {s \o <<"x">> : s \in UnknownSeqs}

\* ESC[2J, once and twice
ClearScreen == <<ESC, "[", "2", "J">>
ClearChunks == {ClearScreen, ClearScreen \o ClearScreen}

\* save, writes and cursor moves, restore, a marker; alone and after a text
SaveSeq    == <<ESC, "[", "s">>
RestoreSeq == <<ESC, "[", "u">>
Between == {<<>>, <<"x">>, <<"x", "x">>, <<LF>>, <<CR>>, <<"x", LF, "x">>,
            Run(Rows * Cols + 1), ClearScreen, <<ESC, "[", "H">>,
            <<ESC, "[", "B">>, <<ESC, "[", "9", "C">>,
            <<ESC, "[", "2", ";", "2", "H", "x">>, <<"x", ESC, "[", "K">>}
SaveRestoreChunks ==
    {pre \o SaveSeq \o mid \o RestoreSeq \o <<"y">> :
        pre \in {<<>>, <<"x">>}, mid \in Between}

\* SGR sequences: reset, colours and attributes with ';' between the
\* parameters, and with ':' between sub-parameters (curly underline 4:3,
\* indexed colour 38:5:1); alone, and around the letters of a text
SgrSeqs == {<<ESC, "[", "m">>, <<ESC, "[", "0", "m">>,
            <<ESC, "[", "3", "1", "m">>, <<ESC, "[", "1", ";", "3", "1", "m">>,
            <<ESC, "[", "4", ":", "3", "m">>,
            <<ESC, "[", "3", "8", ":", "5", ":", "1", "m">>}
SgrText(sgr) == <<"x">> \o sgr \o <<"y">> \o <<ESC, "[", "0", "m">>
SgrChunks == SgrSeqs \cup {SgrText(sgr) : sgr \in SgrSeqs}

\* cursor position sequences: the parameter text, and the 1-indexed row and
\* column it stands for (1 for a parameter that is missing or empty)
CupCases == {[p |-> <<>>,                row |-> 1, col |-> 1],
             [p |-> <<"2">>,             row |-> 2, col |-> 1],
             [p |-> <<";">>,             row |-> 1, col |-> 1],
             [p |-> <<";", "2">>,        row |-> 1, col |-> 2],
             [p |-> <<"2", ";">>,        row |-> 2, col |-> 1],
             [p |-> <<"1", ";", "1">>,   row |-> 1, col |-> 1],
             [p |-> <<"2", ";", "3">>,   row |-> 2, col |-> 3],
             [p |-> <<"1", ";", "2">>,   row |-> 1, col |-> 2],
             [p |-> <<"9", ";", "9">>,   row |-> 9, col |-> 9],
             [p |-> <<"0", ";", "0">>,   row |-> 0, col |-> 0]}
CupSeq(p, final) == <<ESC, "[">> \o p \o <<final>>
CupChunks == {CupSeq(cs.p, final) : cs \in CupCases, final \in {"H", "f"}}

Chunks == PlainChunks \cup CsiChunks \cup CsiThenText \cup CutChunks
              \cup OtherEscChunks \cup PrintableRuns
              \cup UnknownSeqs \cup UnknownThenText
              \cup ClearChunks \cup SaveRestoreChunks \cup SgrChunks
              \cup CupChunks

(***************************************************************************)
(* SpecScreen: the ScreenBuffer alone, fed by process_output               *)
(***************************************************************************)
\* one call screen_buffer.process_output(output); what the call did before an
\* exception left it stays done
ProcessOutput(output) ==
    /\ sb_calls < MaxCalls
    /\ LET r == process_output(screen_buffer, output)
       IN  /\ screen_buffer' = r.sb
           /\ sb_raised' = r.raised
    /\ sb_calls' = sb_calls + 1
    /\ UNCHANGED <<regVars, termVars, taskVars, osVars, sessVars, histVars>>

NextScreen == \E output \in Chunks : ProcessOutput(output)

SpecScreen == Init /\ [][NextScreen]_vars

(***************************************************************************)
(* SpecWide: a ScreenBuffer wide enough to hold two tab stops, fed with    *)
(* text that takes the cursor to every cell, and with tabs                 *)
(***************************************************************************)
WideCols == 17

WideRuns == {Run(n) : n \in 1..(Rows * WideCols)}

WideChunks == WideRuns \cup {<<TAB>>, <<TAB, TAB>>, <<TAB, "x">>, <<LF>>}

InitWide == screen_buffer = NewScreenBuffer(Rows, WideCols) /\ InitRest

NextWide == \E output \in WideChunks : ProcessOutput(output)

SpecWide == InitWide /\ [][NextWide]_vars

(***************************************************************************)
(* TerminalSession: the raw buffer                                         *)
(***************************************************************************)
\* TerminalSession.add_output: the append, then the screen update, whose
\* exceptions are swallowed
PrependChunk(buf, data) == <<data>> \o buf

AppendChunk(buf, data) == Append(buf, data)

add_output(data) ==
    /\ output_buffer' = AppendChunk(output_buffer, data)
    /\ LET r == process_output(screen_buffer, Decode(data))
       IN  /\ screen_buffer' = r.sb
           /\ sb_raised' = r.raised
    /\ last_op' = "append"
    /\ UNCHANGED <<sb_calls, last_out, last_clear>>

\* TerminalSession.get_output: what it returns, and what it leaves
DrainLastChunk(buf) == IF Len(buf) = 0 THEN <<>> ELSE buf[Len(buf)]

DrainResult(buf) == Join(buf)

BufferKept(buf, clr) == buf

BufferAfterDrain(buf, clr) == IF clr THEN <<>> ELSE buf

\* get_output(clear=clr).  The body under "async with self.lock" holds no await and
\* the lock is free whenever a coroutine runs, so the call is one run of the
\* event loop.
GetOutput(clr) ==
    /\ kill_pc = "idle"
    /\ last_out' = DrainResult(output_buffer)
    /\ output_buffer' = BufferAfterDrain(output_buffer, clr)
    /\ last_clear' = clr
    /\ last_op' = "drain"
    /\ h_drained' = IF clr THEN h_drained \o DrainResult(output_buffer)
                    ELSE h_drained
    /\ UNCHANGED <<regVars, screenVars, termVars, taskVars, osVars,
                   h_emitted, h_reads, emits, h_written, h_dead, teardown>>

(***************************************************************************)
(* The child processes and their terminals                                 *)
(***************************************************************************)
\* a child writes to its terminal
ChildEmit(g) ==
    /\ child[g] = "running"
    /\ fd_open[g]
    /\ emits < MaxEmit
    /\ pty_buf' = [pty_buf EXCEPT ![g] = @ \o EmitChunk(emits + 1)]
    /\ h_emitted' = [h_emitted EXCEPT ![g] = @ \o EmitChunk(emits + 1)]
    /\ emits' = emits + 1
    /\ UNCHANGED <<regVars, screenVars, termVars, taskVars, sessVars,
                   fd_open, fd_closes, child, ignores_term, term_sent,
                   h_reads, h_drained, h_written, h_dead, teardown>>

\* a child exits on its own
ChildExit(g) ==
    /\ child[g] = "running"
    /\ child' = [child EXCEPT ![g] = "zombie"]
    /\ UNCHANGED <<regVars, screenVars, termVars, taskVars, sessVars, histVars,
                   fd_open, fd_closes, ignores_term, term_sent, pty_buf>>

\* a child that does not ignore SIGTERM dies of the one sent to it
ChildDieOnTerm(g) ==
    /\ child[g] = "running"
    /\ term_sent[g]
    /\ ~ignores_term[g]
    /\ child' = [child EXCEPT ![g] = "zombie"]
    /\ UNCHANGED <<regVars, screenVars, termVars, taskVars, sessVars, histVars,
                   fd_open, fd_closes, ignores_term, term_sent, pty_buf>>

\* os.kill(pid, sig): a running child and a zombie take the signal, a reaped
\* pid is no process
os_kill(cs) == IF cs \in {"running", "zombie"} THEN "ok" ELSE "ProcessLookupError"

(***************************************************************************)
(* Terminal                                                                *)
(***************************************************************************)
NextGen == Cardinality({g \in Gens : child[g] # "none"}) + 1

\* the startup check of spawn: an exit status other than zero found by
\* os.waitpid(pid, WNOHANG) is a failed start, a zero status is not
StartupFails(startup) == startup = "exitN"

\* Terminal.spawn.  startup is what the child did during the 0.1 s the parent
\* sleeps before os.waitpid(pid, WNOHANG): "alive", "exit0" or "exitN"; out
\* tells whether it wrote to its terminal in that time.
Spawn(startup, ign, out) ==
    /\ kill_pc = "idle"
    /\ IF running
       THEN /\ exc' = "RuntimeError"
            /\ exc_call' = "spawn"
            /\ UNCHANGED <<running, master_fd, pid, osVars, teardown,
                           h_emitted, emits, h_dead>>
       ELSE /\ NextGen <= MaxSpawns
            /\ out => emits < MaxEmit
            /\ LET g == NextGen
                   written == IF out THEN EmitChunk(emits + 1) ELSE <<>>
               IN
               /\ pid' = g
               /\ child' = [child EXCEPT ![g] =
                               IF startup = "alive" THEN "running" ELSE "reaped"]
               /\ ignores_term' = [ignores_term EXCEPT ![g] = ign]
               /\ pty_buf' = [pty_buf EXCEPT ![g] = written]
               /\ h_emitted' = [h_emitted EXCEPT ![g] = written]
               /\ emits' = IF out THEN emits + 1 ELSE emits
               /\ fd_closes' = [fd_closes EXCEPT ![g] =
                                   IF StartupFails(startup) THEN @ + 1 ELSE @]
               /\ fd_open' = [fd_open EXCEPT ![g] = ~StartupFails(startup)]
               /\ master_fd' = IF StartupFails(startup) THEN None ELSE g
               /\ running' = ~StartupFails(startup)
               /\ exc' = IF StartupFails(startup) THEN "RuntimeError" ELSE ""
               /\ exc_call' = IF StartupFails(startup) THEN "spawn" ELSE ""
               /\ teardown' = IF StartupFails(startup) THEN "startup" ELSE "none"
               /\ h_dead' = FALSE
            /\ UNCHANGED term_sent
    /\ UNCHANGED <<regVars, screenVars, read_task, kill_pc, taskVars, sessVars,
                   h_reads, h_drained, h_written>>

NextTask == Cardinality({t \in TaskIds : tasks[t] # "none"}) + 1

\* "if not self._running or self.master_fd is None": no process to talk to
NotRunningFdOnly(run, fd) == fd = None

NotRunning(run, fd) == ~run \/ fd = None

\* Terminal.start_reading
StartReading ==
    /\ kill_pc = "idle"
    /\ IF NotRunning(running, master_fd)
       THEN /\ exc' = "RuntimeError"
            /\ exc_call' = "start_reading"
            /\ UNCHANGED <<read_task, tasks>>
       ELSE /\ NextTask <= MaxTasks
            /\ read_task' = NextTask
            /\ tasks' = [tasks EXCEPT ![NextTask] = "created"]
            /\ exc' = ""
            /\ exc_call' = ""
    /\ UNCHANGED <<regVars, screenVars, running, master_fd, pid, kill_pc, sel_fd, cancels,
                   osVars, sessVars, histVars>>

\* a read loop not yet ended: it may still read the master fd
ActiveStates == {"created", "select", "ready", "timeout", "ebadf"}
DoneStates   == {"done", "failed", "cancelled"}

\* "while self._running:" and, when it holds, the call of select.select on
\* [self.master_fd] in the executor
LoopTest(t, run) ==
    /\ tasks' = [tasks EXCEPT ![t] = IF run THEN "select" ELSE "done"]
    /\ sel_fd' = [sel_fd EXCEPT ![t] = IF run THEN master_fd ELSE @]

\* "break": the loop is left and the task ends
LoopContinue(t) == LoopTest(t, TRUE)

LoopBreak(t) ==
    /\ tasks' = [tasks EXCEPT ![t] = "done"]
    /\ sel_fd' = sel_fd

\* the first run of a _read_loop task
LoopStart(t) ==
    /\ kill_pc = "idle"
    /\ tasks[t] = "created"
    /\ LoopTest(t, running)
    /\ UNCHANGED <<regVars, screenVars, termVars, cancels, osVars, sessVars, histVars>>

\* select.select([fd], [], [], 0.1) returns in the executor thread: the fd is
\* readable when bytes are pending or the child side is gone; a descriptor
\* closed under the call gives a timeout or EBADF
SelectReturn(t) ==
    /\ tasks[t] = "select"
    /\ LET f == sel_fd[t] IN
       \E res \in (IF f = None THEN {"typeerr"}
                   ELSE IF ~fd_open[f] THEN {"timeout", "ebadf"}
                   ELSE IF pty_buf[f] # <<>> \/ child[f] # "running"
                        THEN {"ready"} ELSE {"timeout"}) :
           tasks' = [tasks EXCEPT ![t] = res]
    /\ UNCHANGED <<regVars, screenVars, termVars, sel_fd, cancels, osVars, sessVars,
                   histVars>>

\* os.read(fd, 4096) on the non-blocking master
ReadNothing(buf) == <<>>

ReadData(buf) == SubSeq(buf, 1, Min(Len(buf), ReadSize))
ReadRest(buf) == SubSeq(buf, Min(Len(buf), ReadSize) + 1, Len(buf))

\* the _read_loop task runs again after its await, up to its next await
LoopResume(t) ==
    /\ kill_pc = "idle"
    /\ tasks[t] \in {"ready", "timeout", "ebadf", "typeerr"}
    /\ IF tasks[t] = "typeerr" \/ (tasks[t] = "ready" /\ master_fd = None)
       THEN \* TypeError is no OSError: it ends the task
            /\ tasks' = [tasks EXCEPT ![t] = "failed"]
            /\ UNCHANGED <<running, sel_fd, pty_buf, h_reads, screenVars, sessVars,
                           teardown>>
       ELSE IF tasks[t] = "timeout"
       THEN /\ LoopTest(t, running)
            /\ UNCHANGED <<running, pty_buf, h_reads, screenVars, sessVars,
                           teardown>>
       ELSE IF tasks[t] = "ready" /\ fd_open[master_fd] /\ pty_buf[master_fd] # <<>>
       THEN \* data read and handed to output_callback
            LET data == ReadData(pty_buf[master_fd]) IN
            /\ pty_buf' = [pty_buf EXCEPT ![master_fd] = ReadRest(@)]
            /\ h_reads' = Append(h_reads, [fd |-> master_fd, data |-> data,
                                         task |-> t])
            /\ add_output(data)
            /\ LoopTest(t, running)
            /\ UNCHANGED <<running, teardown>>
       ELSE \* EOF (b"" or EIO), EAGAIN, EBADF: except OSError
            /\ running' = FALSE
            /\ LoopBreak(t)
            /\ teardown' = IF teardown = "none" THEN "eof" ELSE teardown
            /\ UNCHANGED <<pty_buf, h_reads, screenVars, sessVars>>
    /\ UNCHANGED <<regVars, master_fd, pid, read_task, kill_pc, exc, exc_call,
                   cancels,
                   fd_open, fd_closes, child, ignores_term, term_sent,
                   h_emitted, h_drained, emits, h_written, h_dead>>

\* Terminal.is_alive: its return value and what it leaves
is_alive_unflagged(run, p, cs) ==
    IF p = None THEN [ret |-> FALSE, running |-> run, child |-> cs]
    ELSE IF cs = "running" THEN [ret |-> TRUE, running |-> run, child |-> cs]
    ELSE [ret |-> FALSE, running |-> FALSE, child |-> "reaped"]

is_alive(run, p, cs) ==
    IF ~run \/ p = None THEN [ret |-> FALSE, running |-> run, child |-> cs]
    ELSE IF cs = "running" THEN [ret |-> TRUE, running |-> TRUE, child |-> cs]
    ELSE [ret |-> FALSE, running |-> FALSE, child |-> "reaped"]

ChildOf(p) == IF p = None THEN "none" ELSE child[p]

IsAlive ==
    /\ kill_pc = "idle"
    /\ LET r == is_alive(running, pid, ChildOf(pid)) IN
       /\ running' = r.running
       /\ child' = IF pid = None THEN child ELSE [child EXCEPT ![pid] = r.child]
       /\ h_dead' = (h_dead \/ ~r.ret)
    /\ exc' = ""
    /\ exc_call' = ""
    /\ UNCHANGED <<regVars, screenVars, master_fd, pid, read_task, kill_pc, taskVars,
                   fd_open, fd_closes, ignores_term, term_sent, pty_buf,
                   sessVars, h_emitted, h_reads, h_drained, emits, h_written,
                   teardown>>

\* Terminal.write: the check, then os.write(master_fd, data)
Write(data) ==
    /\ kill_pc = "idle"
    /\ IF NotRunning(running, master_fd)
       THEN /\ exc' = "RuntimeError"
            /\ exc_call' = "write"
            /\ UNCHANGED h_written
       ELSE /\ Len(h_written[master_fd]) + Len(data) <= MaxWrites
            /\ h_written' = [h_written EXCEPT ![master_fd] = @ \o data]
            /\ exc' = ""
            /\ exc_call' = ""
    /\ UNCHANGED <<regVars, screenVars, running, master_fd, pid, read_task, kill_pc,
                   taskVars, osVars, sessVars, h_emitted, h_reads, h_drained,
                   emits, h_dead, teardown>>

KillCatchesNothing == {}

\* the exceptions Terminal.kill catches around os.kill and os.waitpid
KillCatches == {"ProcessLookupError", "ChildProcessError"}

\* Terminal.kill after the try block: the flag, the fd, the task.  A task
\* already given a CancelledError takes no second one.
KillOnlyClearsFlag ==
    /\ running' = FALSE
    /\ exc' = ""
    /\ exc_call' = ""
    /\ teardown' = "kill"
    /\ UNCHANGED <<fd_open, fd_closes, master_fd, tasks, cancels>>

KillRest ==
    /\ running' = FALSE
    /\ IF master_fd # None
       THEN /\ fd_open' = [fd_open EXCEPT ![master_fd] = FALSE]
            /\ fd_closes' = [fd_closes EXCEPT ![master_fd] = @ + 1]
       ELSE UNCHANGED <<fd_open, fd_closes>>
    /\ master_fd' = None
    /\ IF read_task # None /\ tasks[read_task] \notin DoneStates
       THEN /\ tasks' = [tasks EXCEPT ![read_task] = "cancelled"]
            /\ cancels' = [cancels EXCEPT ![read_task] = @ + 1]
       ELSE UNCHANGED <<tasks, cancels>>
    /\ exc' = ""
    /\ exc_call' = ""
    /\ teardown' = "kill"

\* Terminal.kill up to os.waitpid(pid, 0), and to its end when that is skipped
KillBegin ==
    /\ kill_pc = "idle"
    /\ IF pid = None
       THEN KillRest /\ UNCHANGED <<kill_pc, term_sent>>
       ELSE IF os_kill(child[pid]) = "ok"
       THEN /\ term_sent' = [term_sent EXCEPT ![pid] = TRUE]
            /\ kill_pc' = "waitpid"
            /\ UNCHANGED <<running, master_fd, exc, exc_call, tasks, cancels,
                           fd_open, fd_closes, teardown>>
       ELSE IF os_kill(child[pid]) \in KillCatches
       THEN KillRest /\ UNCHANGED <<kill_pc, term_sent>>
       ELSE /\ exc' = os_kill(child[pid])
            /\ exc_call' = "kill"
            /\ UNCHANGED <<running, master_fd, kill_pc, tasks, cancels,
                           fd_open, fd_closes, term_sent, teardown>>
    /\ UNCHANGED <<regVars, screenVars, pid, read_task, sel_fd, child, ignores_term,
                   pty_buf, sessVars, h_emitted, h_reads, h_drained, emits,
                   h_written, h_dead>>

\* os.waitpid(pid, 0) returns once the child is dead, and kill runs to its end
KillFinish ==
    /\ kill_pc = "waitpid"
    /\ child[pid] = "zombie"
    /\ child' = [child EXCEPT ![pid] = "reaped"]
    /\ kill_pc' = "idle"
    /\ KillRest
    /\ UNCHANGED <<regVars, screenVars, pid, read_task, sel_fd, ignores_term, term_sent,
                   pty_buf, sessVars, h_emitted, h_reads, h_drained, emits,
                   h_written, h_dead>>

Next ==
    \/ \E startup \in {"alive", "exit0", "exitN"}, ign \in BOOLEAN,
          out \in BOOLEAN :
           Spawn(startup, ign, out)
    \/ StartReading
    \/ \E t \in TaskIds : LoopStart(t)
    \/ \E t \in TaskIds : SelectReturn(t)
    \/ \E t \in TaskIds : LoopResume(t)
    \/ \E clr \in BOOLEAN : GetOutput(clr)
    \/ IsAlive
    \/ \E data \in {<<"a">>} : Write(data)
    \/ KillBegin
    \/ KillFinish
    \/ \E g \in Gens : ChildEmit(g)
    \/ \E g \in Gens : ChildExit(g)
    \/ \E g \in Gens : ChildDieOnTerm(g)

Spec == Init /\ [][Next]_vars

\* asyncio runs every task that is ready, the executor's select returns, a
\* blocked waitpid returns once the child is dead, and a child that does not
\* ignore SIGTERM dies of it
FairSpec ==
    /\ Spec
    /\ WF_vars(KillFinish)
    /\ \A g \in Gens : WF_vars(ChildDieOnTerm(g))
    /\ \A t \in TaskIds : WF_vars(LoopStart(t))
    /\ \A t \in TaskIds : WF_vars(SelectReturn(t))
    /\ \A t \in TaskIds : WF_vars(LoopResume(t))

\* The Terminal with its read loops and its child, when nobody drains the raw
\* buffer or writes to the terminal and the child writes only before the
\* startup check: the calls and steps that decide whether what the child
\* wrote reaches the sink.
NextRead ==
    \/ \E startup \in {"alive", "exit0", "exitN"}, ign \in BOOLEAN,
          out \in BOOLEAN :
           Spawn(startup, ign, out)
    \/ StartReading
    \/ \E t \in TaskIds : LoopStart(t)
    \/ \E t \in TaskIds : SelectReturn(t)
    \/ \E t \in TaskIds : LoopResume(t)
    \/ IsAlive
    \/ KillBegin
    \/ KillFinish
    \/ \E g \in Gens : ChildExit(g)
    \/ \E g \in Gens : ChildDieOnTerm(g)

FairSpecRead ==
    /\ Init
    /\ [][NextRead]_vars
    /\ WF_vars(KillFinish)
    /\ \A g \in Gens : WF_vars(ChildDieOnTerm(g))
    /\ \A t \in TaskIds : WF_vars(LoopStart(t))
    /\ \A t \in TaskIds : WF_vars(SelectReturn(t))
    /\ \A t \in TaskIds : WF_vars(LoopResume(t))

\* the child is cat: it reads what os.write put on the terminal and writes it
\* back; it writes nothing else
ChildEcho(g) ==
    /\ child[g] = "running"
    /\ fd_open[g]
    /\ Len(h_emitted[g]) < Len(h_written[g])
    /\ LET data == SubSeq(h_written[g], Len(h_emitted[g]) + 1,
                          Len(h_written[g]))
       IN  /\ pty_buf' = [pty_buf EXCEPT ![g] = @ \o data]
           /\ h_emitted' = [h_emitted EXCEPT ![g] = @ \o data]
    /\ UNCHANGED <<regVars, screenVars, termVars, taskVars, sessVars,
                   fd_open, fd_closes, child, ignores_term, term_sent,
                   h_reads, h_drained, emits, h_written, h_dead, teardown>>

\* The Terminal of a session whose child is cat and which nobody kills: the
\* calls of the session's users, the read loops, and the child echoing its
\* input or exiting.
NextEcho ==
    \/ \E startup \in {"alive", "exit0", "exitN"} :
           Spawn(startup, FALSE, FALSE)
    \/ StartReading
    \/ \E t \in TaskIds : LoopStart(t)
    \/ \E t \in TaskIds : SelectReturn(t)
    \/ \E t \in TaskIds : LoopResume(t)
    \/ \E clr \in BOOLEAN : GetOutput(clr)
    \/ IsAlive
    \/ \E data \in {<<"a">>} : Write(data)
    \/ \E g \in Gens : ChildEcho(g)
    \/ \E g \in Gens : ChildExit(g)

\* asyncio runs every task that is ready, the executor's select returns, and
\* the operating system runs the child
FairSpecEcho ==
    /\ Init
    /\ [][NextEcho]_vars
    /\ \A g \in Gens : WF_vars(ChildEcho(g))
    /\ \A t \in TaskIds : WF_vars(LoopStart(t))
    /\ \A t \in TaskIds : WF_vars(SelectReturn(t))
    /\ \A t \in TaskIds : WF_vars(LoopResume(t))

(***************************************************************************)
(* The websocket relay of the session: websocket_endpoint with its two     *)
(* tasks, send_output and receive_input, and the peer.  What the messages  *)
(* carry is not part of this state.                                        *)
(***************************************************************************)
regOther == <<sessions, heap, uuid_count, forks, proc, open_fds, closes, req,
              reg_ret, reg_reads, reg_written, winsize>>

\* create_session registers the session once spawn has returned
Registered == pid # None /\ teardown # "startup"

\* websocket_endpoint up to asyncio.gather: get_session, then accept, or
\* close(code=1008) when the id is unknown (found = FALSE)
WsConnect(found) ==
    /\ relay.ws = "none"
    /\ found => Registered
    /\ relay' = IF found
                THEN [relay EXCEPT !.ws = "open", !.send = "sleep",
                                   !.recv = "receive", !.peer = "connected"]
                ELSE [relay EXCEPT !.ws = "refused"]
    /\ UNCHANGED <<regOther, screenVars, termVars, taskVars, osVars, sessVars,
                   histVars>>

\* the peer sends a message, binary or text
PeerSend(kind) ==
    /\ relay.ws = "open"
    /\ relay.peer = "connected"
    /\ \A g \in Gens : Len(relay.inbox) + Len(h_written[g]) < MaxWrites
    /\ relay' = [relay EXCEPT !.inbox = Append(@, kind)]
    /\ UNCHANGED <<regOther, screenVars, termVars, taskVars, osVars, sessVars,
                   histVars>>

\* the peer closes the connection or is lost
PeerDisconnect ==
    /\ relay.ws = "open"
    /\ relay.peer = "connected"
    /\ relay' = [relay EXCEPT !.peer = "gone"]
    /\ UNCHANGED <<regOther, screenVars, termVars, taskVars, osVars, sessVars,
                   histVars>>

\* send_output from "if not session.terminal.is_alive()" on: the marker and
\* "break", or the next round.  rl is the relay as the round left it so far;
\* sendres is what a send to a peer that is gone does: it raises, or the
\* message is dropped.
CheckAlive(rl, sendres) ==
    LET r == is_alive(running, pid, ChildOf(pid)) IN
    /\ running' = r.running
    /\ child' = IF pid = None THEN child ELSE [child EXCEPT ![pid] = r.child]
    /\ h_dead' = (h_dead \/ ~r.ret)
    /\ exc' = ""
    /\ exc_call' = ""
    /\ relay' = IF r.ret
                THEN [rl EXCEPT !.send = "sleep"]
                ELSE [rl EXCEPT !.send = "done",
                                !.marker = \/ @
                                           \/ rl.peer = "connected"
                                           \/ sendres = "dropped"]

\* one round of send_output from the end of asyncio.sleep(0.001):
\* get_output(clear=True), then send_bytes when there is output, which gives
\* the event loop away, or the is_alive() test at once when there is none
RelayPoll(sendres) ==
    /\ kill_pc = "idle"
    /\ relay.ws = "open"
    /\ relay.send = "sleep"
    /\ LET out == DrainResult(output_buffer)
           rl  == IF relay.peer = "gone"
                  THEN [relay EXCEPT !.drained = @ \o out] ELSE relay
       IN  /\ last_out' = out
           /\ output_buffer' = BufferAfterDrain(output_buffer, TRUE)
           /\ last_clear' = TRUE
           /\ last_op' = "drain"
           /\ h_drained' = h_drained \o out
           /\ IF out = <<>>
              THEN CheckAlive(rl, sendres)
              ELSE /\ relay' = IF rl.peer = "gone" /\ sendres = "raises"
                               THEN [rl EXCEPT !.send = "done"]
                               ELSE [rl EXCEPT !.send = "check"]
                   /\ UNCHANGED <<running, child, h_dead, exc, exc_call>>
    /\ UNCHANGED <<regOther, screenVars, master_fd, pid, read_task, kill_pc,
                   taskVars, fd_open, fd_closes, ignores_term, term_sent,
                   pty_buf, h_emitted, h_reads, emits, h_written, teardown>>

\* send_output after send_bytes returned: the is_alive() test
RelayCheck(sendres) ==
    /\ kill_pc = "idle"
    /\ relay.ws = "open"
    /\ relay.send = "check"
    /\ CheckAlive(relay, sendres)
    /\ UNCHANGED <<regOther, screenVars, master_fd, pid, read_task, kill_pc,
                   taskVars, fd_open, fd_closes, ignores_term, term_sent,
                   pty_buf, sessVars, h_emitted, h_reads, h_drained, emits,
                   h_written, teardown>>

\* one round of receive_input: receive_bytes returns a binary message, which
\* goes to Terminal.write, or raises on a text message or a lost peer; any
\* exception ends the loop
RelayReceive ==
    /\ kill_pc = "idle"
    /\ relay.ws = "open"
    /\ relay.recv = "receive"
    /\ IF relay.inbox # <<>>
       THEN IF Head(relay.inbox) = "bytes"
            THEN IF NotRunning(running, master_fd)
                 THEN /\ relay' = [relay EXCEPT !.inbox = Tail(@),
                                                !.recv = "done"]
                      /\ exc' = "RuntimeError"
                      /\ exc_call' = "write"
                      /\ UNCHANGED h_written
                 ELSE /\ relay' = [relay EXCEPT !.inbox = Tail(@)]
                      /\ h_written' = [h_written EXCEPT ![master_fd] = @ \o <<"a">>]
                      /\ exc' = ""
                      /\ exc_call' = ""
            ELSE /\ relay' = [relay EXCEPT !.inbox = Tail(@), !.recv = "done"]
                 /\ UNCHANGED <<h_written, exc, exc_call>>
       ELSE /\ relay.peer = "gone"
            /\ relay' = [relay EXCEPT !.recv = "done"]
            /\ UNCHANGED <<h_written, exc, exc_call>>
    /\ UNCHANGED <<regOther, screenVars, running, master_fd, pid, read_task,
                   kill_pc, taskVars, osVars, sessVars, h_emitted, h_reads,
                   h_drained, emits, h_dead, teardown>>

\* asyncio.gather returns once both tasks have ended, and the finally block
\* closes the websocket
RelayClose ==
    /\ relay.ws = "open"
    /\ relay.send = "done"
    /\ relay.recv = "done"
    /\ relay' = [relay EXCEPT !.ws = "closed"]
    /\ UNCHANGED <<regOther, screenVars, termVars, taskVars, osVars, sessVars,
                   histVars>>

NextRelay ==
    \/ \E startup \in {"alive", "exit0", "exitN"} :
           Spawn(startup, FALSE, FALSE)
    \/ StartReading
    \/ \E t \in TaskIds : LoopStart(t)
    \/ \E t \in TaskIds : SelectReturn(t)
    \/ \E t \in TaskIds : LoopResume(t)
    \/ \E g \in Gens : ChildEmit(g)
    \/ \E g \in Gens : ChildExit(g)
    \/ \E found \in BOOLEAN : WsConnect(found)
    \/ \E kind \in {"bytes", "text"} : PeerSend(kind)
    \/ PeerDisconnect
    \/ \E sendres \in {"raises", "dropped"} : RelayPoll(sendres)
    \/ \E sendres \in {"raises", "dropped"} : RelayCheck(sendres)
    \/ RelayReceive
    \/ RelayClose

\* asyncio runs every task that is ready and the executor's select returns;
\* nothing makes the peer or the child act
FairSpecRelay ==
    /\ Init
    /\ [][NextRelay]_vars
    /\ \A t \in TaskIds : WF_vars(LoopStart(t))
    /\ \A t \in TaskIds : WF_vars(SelectReturn(t))
    /\ \A t \in TaskIds : WF_vars(LoopResume(t))
    /\ WF_vars(\E sendres \in {"raises", "dropped"} : RelayPoll(sendres))
    /\ WF_vars(\E sendres \in {"raises", "dropped"} : RelayCheck(sendres))
    /\ WF_vars(RelayReceive)
    /\ WF_vars(RelayClose)

(***************************************************************************)
(* SessionManager: the registry, its sessions and the handlers calling it  *)
(***************************************************************************)
UShortMax == 65535

\* struct.pack("HHHH", rows, cols, 0, 0) takes unsigned shorts only
PacksAsUShort(n) == 0 <= n /\ n <= UShortMax

\* str(uuid.uuid4()): a value never drawn before
uuid4_repeats == IF uuid_count = 0 THEN 1 ELSE uuid_count

uuid4 == uuid_count + 1

\* Terminal.__init__
Terminal(rows, cols) ==
    [rows |-> rows, cols |-> cols, master_fd |-> None, pid |-> None,
     running |-> FALSE, read_task |-> "none"]

\* TerminalSession.__init__
TerminalSession(terminal, rows, cols) ==
    [terminal |-> terminal, output_buffer |-> <<>>,
     screen_buffer |-> NewScreenBuffer(rows, cols)]

\* self.sessions[session_id] = session, and del self.sessions[session_id]
SetItem(d, k, v) == [i \in DOMAIN d \cup {k} |-> IF i = k THEN v ELSE d[i]]

KeepItem(d, k) == d

DelItem(d, k) == [i \in DOMAIN d \ {k} |-> d[i]]

\* SessionManager.get_session and list_sessions
get_session(id) == IF id \in DOMAIN sessions THEN sessions[id] ELSE None

list_sessions == DOMAIN sessions

\* delete_session and Terminal.kill are plain functions: while one of them
\* waits in os.waitpid the event loop runs no handler and no task
LoopAlwaysFree == TRUE

LoopFree == \A h \in Handlers : req[h].pc # "waitpid"

\* spawn's failed startup check runs os.close(self.master_fd) before it
\* raises: the fds of the n-th fork it leaves open
FailedStartLeaks(n) == {n}

FailedStartFds(n) == {}

\* The handler of POST /sessions: create_session, then start_reading on the
\* session it registered.  pty.fork gives the n-th child the pid n and the
\* master fd n; startup is what the child did before the startup check, or
\* "nofork" when pty.fork raised OSError and there is no child.
CreateSession(rows, cols, startup) ==
    /\ LoopFree
    /\ forks < MaxSessions
    /\ LET session_id == uuid4
           n == forks + 1
           spawned == [Terminal(rows, cols) EXCEPT
                          !.pid = n, !.master_fd = n, !.running = TRUE,
                          !.read_task = "active"]
       IN
       /\ uuid_count' = uuid_count + 1
       /\ forks' = n
       /\ IF startup = "nofork"
          THEN /\ reg_ret' = [call |-> "create", exc |-> "OSError",
                              id |-> None, out |-> <<>>]
               /\ UNCHANGED <<sessions, heap, proc, open_fds, closes, winsize>>
          ELSE IF ~(PacksAsUShort(rows) /\ PacksAsUShort(cols))
          THEN \* struct.error leaves _set_terminal_size, spawn and create_session
               /\ proc' = [proc EXCEPT ![n] =
                              IF startup = "alive" THEN "running" ELSE "zombie"]
               /\ open_fds' = open_fds \cup {n}
               /\ reg_ret' = [call |-> "create", exc |-> "struct.error",
                              id |-> None, out |-> <<>>]
               /\ UNCHANGED <<sessions, heap, closes, winsize>>
          ELSE IF StartupFails(startup)
          THEN /\ proc' = [proc EXCEPT ![n] = "reaped"]
               /\ winsize' = [winsize EXCEPT ![n] = <<rows, cols>>]
               /\ closes' = [closes EXCEPT ![n] = @ + 1]
               /\ open_fds' = open_fds \cup FailedStartFds(n)
               /\ reg_ret' = [call |-> "create", exc |-> "RuntimeError",
                              id |-> None, out |-> <<>>]
               /\ UNCHANGED <<sessions, heap>>
          ELSE /\ proc' = [proc EXCEPT ![n] =
                              IF startup = "alive" THEN "running" ELSE "reaped"]
               /\ open_fds' = open_fds \cup {n}
               /\ winsize' = [winsize EXCEPT ![n] = <<rows, cols>>]
               /\ heap' = SetItem(heap, n, TerminalSession(spawned, rows, cols))
               /\ sessions' = SetItem(sessions, session_id, n)
               /\ reg_ret' = [call |-> "create", exc |-> "",
                              id |-> session_id, out |-> <<>>]
               /\ UNCHANGED closes
    /\ UNCHANGED <<req, reg_reads, reg_written, relay, screenVars, termVars, taskVars, osVars,
                   sessVars, histVars>>

\* TerminalSession.add_output on the session object s
SessionAddOutput(s, data) ==
    [s EXCEPT !.output_buffer = AppendChunk(@, data),
              !.screen_buffer = process_output(@, Decode(data)).sb]

\* a round of the _read_loop of object n in which os.read returns a chunk
SessionRead(n) ==
    /\ LoopFree
    /\ n \in DOMAIN heap
    /\ heap[n].terminal.read_task = "active"
    /\ heap[n].terminal.running
    /\ reg_reads[n] < MaxChunks
    /\ heap' = [heap EXCEPT ![n] = SessionAddOutput(@, EmitChunk(1))]
    /\ reg_reads' = [reg_reads EXCEPT ![n] = @ + 1]
    /\ UNCHANGED <<sessions, uuid_count, forks, proc, open_fds, closes, req,
                   reg_ret, reg_written, winsize, relay, screenVars, termVars, taskVars, osVars, sessVars,
                   histVars>>

\* a round of the _read_loop of object n in which os.read finds the child gone
SessionEof(n) ==
    /\ LoopFree
    /\ n \in DOMAIN heap
    /\ heap[n].terminal.read_task = "active"
    /\ heap[n].terminal.running
    /\ proc[n] # "running"
    /\ heap' = [heap EXCEPT ![n].terminal.running = FALSE,
                            ![n].terminal.read_task = "done"]
    /\ UNCHANGED <<sessions, uuid_count, forks, proc, open_fds, closes, req,
                   reg_ret, reg_reads, reg_written, winsize, relay, screenVars, termVars, taskVars, osVars,
                   sessVars, histVars>>

\* The handler of GET /sessions/{id}/output on a session that is present
SessionGetOutput(id, clr) ==
    /\ LoopFree
    /\ get_session(id) # None
    /\ LET n == get_session(id) IN
       /\ reg_ret' = [call |-> "get_output", exc |-> "", id |-> id,
                      out |-> DrainResult(heap[n].output_buffer)]
       /\ heap' = [heap EXCEPT ![n].output_buffer = BufferAfterDrain(@, clr)]
    /\ UNCHANGED <<sessions, uuid_count, forks, proc, open_fds, closes, req,
                   reg_reads, reg_written, winsize, relay, screenVars, termVars, taskVars, osVars, sessVars,
                   histVars>>

\* The handler of POST /sessions/{id}/input: get_session, then Terminal.write
\* on the Terminal of the session found.  os.write on the master fd succeeds
\* whether or not the child still runs.
WriteInput(id, data) ==
    /\ LoopFree
    /\ IF get_session(id) = None
       THEN /\ reg_ret' = [call |-> "write_input", exc |-> "HTTPException",
                           id |-> id, out |-> <<>>]
            /\ UNCHANGED reg_written
       ELSE LET n == get_session(id)
                t == heap[n].terminal
            IN  IF NotRunning(t.running, t.master_fd)
                THEN /\ reg_ret' = [call |-> "write_input",
                                    exc |-> "RuntimeError",
                                    id |-> id, out |-> <<>>]
                     /\ UNCHANGED reg_written
                ELSE /\ Len(reg_written[t.master_fd]) + Len(data) <= MaxWrites
                     /\ reg_written' = [reg_written EXCEPT
                                           ![t.master_fd] = @ \o data]
                     /\ reg_ret' = [call |-> "write_input", exc |-> "",
                                    id |-> id, out |-> <<>>]
    /\ UNCHANGED <<sessions, heap, uuid_count, forks, proc, open_fds, closes,
                   req, reg_reads, winsize, relay, screenVars, termVars, taskVars,
                   osVars, sessVars, histVars>>

\* a child exits, on its own or of the SIGTERM sent to it
ProcExit(p) ==
    /\ proc[p] = "running"
    /\ proc' = [proc EXCEPT ![p] = "zombie"]
    /\ UNCHANGED <<sessions, heap, uuid_count, forks, open_fds, closes, req,
                   reg_ret, reg_reads, reg_written, winsize, relay, screenVars, termVars, taskVars, osVars,
                   sessVars, histVars>>

\* a DELETE /sessions/{id} request reaches the server: its handler will run
\* when the event loop is free
DeleteCall(h, id) ==
    /\ req[h].pc = "idle"
    /\ req' = [req EXCEPT ![h] =
                  [pc |-> "pending", id |-> id, obj |-> None,
                   was |-> id \in DOMAIN sessions,
                   fd |-> IF id \in DOMAIN sessions
                          THEN heap[sessions[id]].terminal.master_fd ELSE None,
                   ret |-> "none"]]
    /\ UNCHANGED <<sessions, heap, uuid_count, forks, proc, open_fds, closes,
                   reg_ret, reg_reads, reg_written, winsize, relay, screenVars, termVars, taskVars, osVars,
                   sessVars, histVars>>

\* Terminal.kill from "self._running = False" on
TerminalKilled(t) ==
    [t EXCEPT !.running = FALSE, !.master_fd = None,
              !.read_task = IF @ = "active" THEN "cancelled" ELSE @]

\* handler h ends with the result ret
Return(h, ret) == req' = [req EXCEPT ![h].pc = "done", ![h].ret = ret]

\* delete_session once kill() is through its try block: the rest of kill on
\* the Terminal of object n, then "del self.sessions[session_id]"
DeleteRest(h, id, n) ==
    /\ heap' = [heap EXCEPT ![n].terminal = TerminalKilled(@)]
    /\ IF heap[n].terminal.master_fd # None
       THEN /\ open_fds' = open_fds \ {heap[n].terminal.master_fd}
            /\ closes' = [closes EXCEPT ![heap[n].terminal.master_fd] = @ + 1]
       ELSE UNCHANGED <<open_fds, closes>>
    /\ IF id \in DOMAIN sessions
       THEN sessions' = DelItem(sessions, id) /\ Return(h, "True")
       ELSE sessions' = sessions /\ Return(h, "KeyError")

\* os.waitpid(pid, 0) on a child that is dead
os_waitpid(cs) == IF cs = "zombie" THEN "ok" ELSE "ChildProcessError"

\* The handler of DELETE /sessions/{id}: delete_session up to os.waitpid in
\* kill, and to its end when that is not reached
DeleteBegin(h) ==
    /\ LoopFree
    /\ req[h].pc = "pending"
    /\ LET id == req[h].id IN
       IF get_session(id) = None
       THEN /\ Return(h, "False")
            /\ UNCHANGED <<sessions, heap, open_fds, closes>>
       ELSE LET n == get_session(id)
                p == heap[n].terminal.pid
            IN  IF os_kill(proc[p]) = "ok"
                THEN /\ req' = [req EXCEPT ![h].pc = "waitpid", ![h].obj = n]
                     /\ UNCHANGED <<sessions, heap, open_fds, closes>>
                ELSE IF os_kill(proc[p]) \in KillCatches
                THEN DeleteRest(h, id, n)
                ELSE /\ Return(h, os_kill(proc[p]))
                     /\ UNCHANGED <<sessions, heap, open_fds, closes>>
    /\ UNCHANGED <<uuid_count, forks, proc, reg_ret, reg_reads, reg_written, winsize, relay, screenVars,
                   termVars, taskVars, osVars, sessVars, histVars>>

\* os.waitpid returns in the handler h, and delete_session runs to its end
DeleteFinish(h) ==
    /\ req[h].pc = "waitpid"
    /\ LET n == req[h].obj
           p == heap[n].terminal.pid
       IN  /\ proc[p] \in {"zombie", "reaped"}
           /\ proc' = [proc EXCEPT ![p] = "reaped"]
           /\ IF os_waitpid(proc[p]) = "ok" \/ os_waitpid(proc[p]) \in KillCatches
              THEN DeleteRest(h, req[h].id, n)
              ELSE /\ Return(h, os_waitpid(proc[p]))
                   /\ UNCHANGED <<sessions, heap, open_fds, closes>>
    /\ UNCHANGED <<uuid_count, forks, reg_ret, reg_reads, reg_written, winsize, relay, screenVars, termVars,
                   taskVars, osVars, sessVars, histVars>>

NextRegistry ==
    \/ \E rows \in {Rows, -1},
          startup \in {"alive", "exit0", "exitN", "nofork"} :
           CreateSession(rows, Cols, startup)
    \/ \E n \in Forks : SessionRead(n)
    \/ \E n \in Forks : SessionEof(n)
    \/ \E id \in Forks, clr \in BOOLEAN : SessionGetOutput(id, clr)
    \/ \E id \in Forks : WriteInput(id, <<"a">>)
    \/ \E p \in Forks : ProcExit(p)
    \/ \E h \in Handlers, id \in Forks : DeleteCall(h, id)
    \/ \E h \in Handlers : DeleteBegin(h)
    \/ \E h \in Handlers : DeleteFinish(h)

SpecRegistry == Init /\ [][NextRegistry]_vars

\* the exception Terminal.resize catches around os.kill
ResizeCatches == {"ProcessLookupError"}

resize_keeps_size(t, rows, cols) == t

\* Terminal.resize: "self.rows = rows; self.cols = cols"
resize(t, rows, cols) == [t EXCEPT !.rows = rows, !.cols = cols]

\* "if self.pid:" in Terminal.kill and Terminal.resize: the pid they hand to
\* os.kill, None when they signal nothing
SignalTarget(t) == t.pid

\* struct.pack in _set_terminal_size, which runs when there is a master fd,
\* refuses the size: struct.error leaves Terminal.resize before os.kill
resize_pack_fails(t, rows, cols) ==
    t.master_fd # None /\ ~(PacksAsUShort(rows) /\ PacksAsUShort(cols))

\* the pid Terminal.resize hands to os.kill(pid, SIGWINCH), None when it
\* does not get there
resize_signals(t, rows, cols) ==
    IF resize_pack_fails(t, rows, cols) THEN None ELSE SignalTarget(t)

\* the exception that leaves Terminal.resize on the Terminal t ("" when it
\* returns)
resize_raises(t, rows, cols) ==
    IF resize_pack_fails(t, rows, cols)
    THEN "struct.error"
    ELSE IF resize_signals(t, rows, cols) # None
            /\ os_kill(proc[resize_signals(t, rows, cols)])
                   \notin ResizeCatches \cup {"ok"}
    THEN os_kill(proc[resize_signals(t, rows, cols)])
    ELSE ""

\* The handler of POST /sessions/{id}/resize: get_session, then
\* Terminal.resize on the Terminal of the session found: the two fields,
\* ioctl(master_fd, TIOCSWINSZ) and os.kill(pid, SIGWINCH).  The child takes
\* no step of the model on SIGWINCH.
ResizeTerminal(id, rows, cols) ==
    /\ LoopFree
    /\ IF get_session(id) = None
       THEN /\ reg_ret' = [call |-> "resize", exc |-> "HTTPException",
                           id |-> id, out |-> <<>>]
            /\ UNCHANGED <<heap, winsize>>
       ELSE LET n == get_session(id)
                t == heap[n].terminal
            IN  /\ heap' = [heap EXCEPT ![n].terminal = resize(@, rows, cols)]
                /\ IF t.master_fd # None /\ ~resize_pack_fails(t, rows, cols)
                   THEN winsize' = [winsize EXCEPT
                                       ![t.master_fd] = <<rows, cols>>]
                   ELSE UNCHANGED winsize
                /\ reg_ret' = [call |-> "resize",
                               exc |-> resize_raises(t, rows, cols),
                               id |-> id, out |-> <<>>]
    /\ UNCHANGED <<sessions, uuid_count, forks, proc, open_fds, closes, req,
                   reg_reads, reg_written, relay, screenVars, termVars, taskVars,
                   osVars, sessVars, histVars>>

\* The handler of GET /sessions/{id}: get_session, then is_alive() and the
\* rows and cols of the Terminal of the session found
GetSessionInfo(id) ==
    /\ LoopFree
    /\ IF get_session(id) = None
       THEN /\ reg_ret' = [call |-> "info", exc |-> "HTTPException",
                           id |-> id, out |-> <<>>]
            /\ UNCHANGED <<heap, proc>>
       ELSE LET n == get_session(id)
                t == heap[n].terminal
                r == is_alive(t.running, t.pid, proc[t.pid])
            IN  /\ heap' = [heap EXCEPT ![n].terminal.running = r.running]
                /\ proc' = [proc EXCEPT ![t.pid] = r.child]
                /\ reg_ret' = [call |-> "info", exc |-> "", id |-> id,
                               out |-> [alive |-> r.ret, rows |-> t.rows,
                                        cols |-> t.cols]]
    /\ UNCHANGED <<sessions, uuid_count, forks, open_fds, closes, req,
                   reg_reads, reg_written, winsize, relay, screenVars, termVars,
                   taskVars, osVars, sessVars, histVars>>

\* the sizes the resize requests ask for: the size the sessions were made
\* with, a larger one, and one struct.pack refuses
Sizes == {<<Rows, Cols>>, <<Rows + 1, Cols + 1>>, <<-1, Cols>>}

\* sessions made with the size Rows x Cols, resize and info requests on them,
\* and one DELETE request at a time
NextResize ==
    \/ \E startup \in {"alive", "exit0", "exitN"} :
           CreateSession(Rows, Cols, startup)
    \/ \E n \in Forks : SessionRead(n)
    \/ \E n \in Forks : SessionEof(n)
    \/ \E id \in Forks, size \in Sizes : ResizeTerminal(id, size[1], size[2])
    \/ \E id \in Forks : GetSessionInfo(id)
    \/ \E p \in Forks : ProcExit(p)
    \/ \E id \in Forks : DeleteCall(1, id)
    \/ DeleteBegin(1)
    \/ DeleteFinish(1)

SpecResize == Init /\ [][NextResize]_vars


(***************************************************************************)
(* Properties of the ScreenBuffer (SpecScreen)                             *)
(***************************************************************************)
\* C1: after any sequence of process_output calls the cursor is inside the
\* grid: 0 <= cursor_row < rows and 0 <= cursor_col < cols.
C1_CursorInBounds ==
    /\ 0 <= screen_buffer.cursor_row
    /\ screen_buffer.cursor_row < screen_buffer.rows
    /\ 0 <= screen_buffer.cursor_col
    /\ screen_buffer.cursor_col < screen_buffer.cols

\* calls were made, a cursor was saved, and the cursor stands in the last
\* cell of the grid
C1_Witness ==
    /\ sb_calls > 0
    /\ screen_buffer.saved_cursor # NoCursor
    /\ screen_buffer.cursor_row = Rows - 1
    /\ screen_buffer.cursor_col = Cols - 1

\* C2: process_output never raises, whatever the input: a malformed escape
\* sequence is a no-op and the rest of the input is processed.
C2_NeverRaises == sb_raised = FALSE

\* C3: after any sequence of process_output calls no cell of the grid holds
\* the ESC character.
C3_NoEscInGrid ==
    \A r \in 1..screen_buffer.rows : \A c \in 1..screen_buffer.cols :
        screen_buffer.screen[r][c] # ESC

(***************************************************************************)
(* Properties of the session and its Terminal (Spec, FairSpec)             *)
(***************************************************************************)
ReadChunks == [i \in 1..Len(h_reads) |-> h_reads[i].data]

RECURSIVE ReadsFrom(_, _)
ReadsFrom(reads, g) ==
    IF Len(reads) = 0 THEN <<>>
    ELSE (IF reads[1].fd = g THEN reads[1].data ELSE <<>>)
             \o ReadsFrom(Tail(reads), g)

RECURSIVE ScreenOf(_)
ScreenOf(chunks) ==
    IF Len(chunks) = 0 THEN NewScreenBuffer(Rows, Cols)
    ELSE process_output(ScreenOf(SubSeq(chunks, 1, Len(chunks) - 1)),
                        Decode(chunks[Len(chunks)])).sb

\* C4: the chunks read from the PTY reach the raw buffer and the ScreenBuffer
\* in emission order, none lost, none twice: what was read from each terminal
\* is the beginning of what its child wrote, the raw buffer holds the latest
\* chunks read, in the order read, and the screen is the one obtained by
\* feeding the chunks read, in the order read.
C4_EmissionOrder ==
    /\ \A g \in Gens : ReadsFrom(h_reads, g) \o pty_buf[g] = h_emitted[g]
    /\ Len(output_buffer) <= Len(h_reads)
    /\ output_buffer =
           SubSeq(ReadChunks, Len(h_reads) - Len(output_buffer) + 1, Len(h_reads))
    /\ screen_buffer = ScreenOf(ReadChunks)

\* two chunks were read and both are in the raw buffer
C4_Witness == Len(h_reads) >= 2 /\ Len(output_buffer) >= 2

\* C5: appends and drains do not tear: every drain returns whole chunks that
\* are contiguous in append order, and the clearing drains together with what
\* the buffer still holds are exactly the chunks appended, each once.
C5_NoTornDrain ==
    /\ h_drained \o Join(output_buffer) = Join(ReadChunks)
    /\ \E a \in 0..Len(h_reads) : \E b \in a..Len(h_reads) :
           last_out = Join(SubSeq(ReadChunks, a + 1, b))

\* a clearing drain returned bytes and a chunk was appended after it
C5_Witness ==
    /\ h_drained # <<>>
    /\ output_buffer # <<>>
    /\ last_op = "append"

\* C6: get_output(clear=True) returns the bytes accumulated since the last
\* clearing drain and leaves the buffer empty, get_output(clear=False) returns
\* them and leaves the buffer as it was; a drain that follows a drain with no
\* append between returns nothing after a clearing one and the same bytes
\* after a peek.
C6_ClearAndPeek ==
    [][\A clr \in BOOLEAN :
          GetOutput(clr) =>
              /\ h_drained \o last_out' = Join(ReadChunks)
              /\ output_buffer' = (IF clr THEN <<>> ELSE output_buffer)
              /\ last_op = "drain" =>
                     last_out' = (IF last_clear THEN <<>> ELSE last_out)]_vars

\* a peek has just returned the two chunks the buffer holds
C6_Witness ==
    /\ last_op = "drain"
    /\ ~last_clear
    /\ Len(output_buffer) >= 2
    /\ last_out = Join(output_buffer)

\* kill() has returned since the last spawn
killed == teardown = "kill"

ActiveTasks == {t \in TaskIds : tasks[t] \in ActiveStates}

\* C7: at every moment at most one read loop of the session is active.
C7_OneReadLoop == Cardinality(ActiveTasks) <= 1

\* C8: the master fd is closed exactly once and the read task cancelled at
\* most once: no fd is closed twice, no task is cancelled twice, and once the
\* Terminal is torn down (by kill, by the EOF its read loop observed, or by a
\* failed startup) no fd it opened is left open.
C8_FdClosedOnce ==
    /\ \A g \in Gens : fd_closes[g] <= 1
    /\ \A t \in TaskIds : cancels[t] <= 1
    /\ (teardown # "none" /\ kill_pc = "idle") =>
           \A g \in Gens : child[g] # "none" => (~fd_open[g] /\ fd_closes[g] = 1)

\* C9: once kill() has returned, is_alive() returns false, and a further
\* kill() returns without raising and leaves the Terminal, its tasks, its fd
\* and its child as they are.
C9_KillIdempotent ==
    /\ [](killed => ~is_alive(running, pid, ChildOf(pid)).ret)
    /\ [][(killed /\ KillBegin) =>
             /\ exc' = ""
             /\ kill_pc' = "idle"
             /\ UNCHANGED <<running, master_fd, pid, read_task, taskVars,
                            osVars>>]_vars

\* kill() has returned on a child that was alive when SIGTERM was sent
C9_Witness ==
    /\ killed
    /\ pid # None
    /\ term_sent[pid]
    /\ child[pid] = "reaped"
    /\ ~fd_open[pid]

\* C11: in every state between the calls of a Terminal the running flag is
\* true if and only if the master fd is open and the child has not been
\* reaped.
C11_RunningIffOpenAndUnreaped ==
    kill_pc = "idle" =>
        (running <=> /\ master_fd # None
                     /\ fd_open[master_fd]
                     /\ pid # None
                     /\ child[pid] # "reaped")

(***************************************************************************)
(* Properties of the registry (SpecRegistry)                               *)
(***************************************************************************)
\* the master fds held by the sessions that are in the registry
RegisteredFds ==
    {heap[sessions[id]].terminal.master_fd : id \in DOMAIN sessions} \ {None}

\* C12: creates and deletes leak no file descriptor: between the calls the
\* open master fds are exactly those of the sessions in the registry.
C12_NoFdLeak == LoopFree => open_fds = RegisteredFds

\* C13: delete_session on an id that is present kills the Terminal of the
\* session, removes that entry and no other, and returns True; on an id that
\* is absent it returns False and changes nothing; it raises nothing, and of
\* two deletes of one id at most one returns True.
C13_DeleteSession ==
    /\ [][\A h \in Handlers :
             (req[h].pc \in {"pending", "waitpid"} /\ req'[h].pc = "done") =>
                 LET id == req[h].id IN
                 IF get_session(id) = None
                 THEN /\ req'[h].ret = "False"
                      /\ UNCHANGED <<sessions, heap, proc, open_fds, closes>>
                 ELSE LET n == get_session(id)
                          t == heap[n].terminal
                      IN  /\ req'[h].ret = "True"
                          /\ sessions' = DelItem(sessions, id)
                          /\ id \notin DOMAIN sessions'
                          /\ ~heap'[n].terminal.running
                          /\ heap'[n].terminal.master_fd = None
                          /\ heap'[n].terminal.read_task # "active"
                          /\ t.master_fd \notin open_fds'
                          /\ proc'[t.pid] = "reaped"]_vars
    /\ [](\A h1, h2 \in Handlers :
              (h1 # h2 /\ req[h1].id = req[h2].id) =>
                  ~(req[h1].ret = "True" /\ req[h2].ret = "True"))

\* a session was deleted, and a delete of the same id called afterwards
\* returned False
C13_Witness ==
    \E h1, h2 \in Handlers :
        /\ req[h1].ret = "True"
        /\ req[h2].ret = "False"
        /\ req[h1].id = req[h2].id
        /\ ~req[h2].was

\* C14: a create_session that returns has drawn an id that was not in the
\* registry, added one entry under it and left every other entry and session
\* as it was; the new session has an empty raw buffer and a blank ScreenBuffer
\* of the size asked for.
C14_CreateSession ==
    [][\A rows \in {Rows, -1}, startup \in {"alive", "exit0", "exitN"} :
          (CreateSession(rows, Cols, startup) /\ reg_ret'.exc = "") =>
              LET id == reg_ret'.id IN
              /\ id \notin list_sessions
              /\ DOMAIN sessions' = list_sessions \cup {id}
              /\ Cardinality(DOMAIN sessions') = Cardinality(list_sessions) + 1
              /\ \A i \in list_sessions :
                     /\ sessions'[i] = sessions[i]
                     /\ heap'[sessions[i]] = heap[sessions[i]]
              /\ sessions'[id] \notin DOMAIN heap
              /\ heap'[sessions'[id]].output_buffer = <<>>
              /\ heap'[sessions'[id]].screen_buffer = NewScreenBuffer(rows, Cols)]_vars

\* a second session has just been created while the first, which has read a
\* chunk, is still registered
C14_Witness ==
    /\ reg_ret.call = "create"
    /\ reg_ret.exc = ""
    /\ Cardinality(list_sessions) = 2
    /\ \E i \in list_sessions : heap[sessions[i]].output_buffer # <<>>

\* the handlers whose DELETE of id was called while id was present
DeletersOf(id) == {h \in Handlers : req[h].id = id /\ req[h].was}

\* C15: of the DELETE handlers called on the same id while it is present,
\* none raises and each returns True or False; at most one delete of the id
\* returns True, exactly one has once those handlers have all returned, and
\* the fd of the session is closed once.
C15_ConcurrentDelete ==
    \A id \in Forks :
        LET done == {h \in DeletersOf(id) : req[h].pc = "done"}
            won  == {h \in Handlers : req[h].id = id /\ req[h].ret = "True"}
        IN  /\ \A h \in done : req[h].ret \in {"True", "False"}
            /\ Cardinality(won) <= 1
            /\ (done # {} /\ done = DeletersOf(id)) => Cardinality(won) = 1
            /\ \A h \in done : closes[req[h].fd] = 1

\* two deletes of one id were called while it was present, the first waited in
\* os.waitpid for the child, and both have returned
C15_Witness ==
    \E h1, h2 \in Handlers :
        /\ h1 # h2
        /\ req[h1].was /\ req[h2].was
        /\ req[h1].id = req[h2].id
        /\ req[h1].obj # None
        /\ req[h1].ret = "True"
        /\ req[h2].ret = "False"

(***************************************************************************)
(* Properties of the Terminal, continued (Spec, FairSpecRead)              *)
(***************************************************************************)
\* C16: once kill() has returned, nothing more is read from the master fd and
\* no chunk reaches the raw buffer or the ScreenBuffer, whatever the read
\* loops were doing when kill ran.
C16_NoReadAfterKill ==
    [][(killed /\ kill_pc = "idle") =>
           /\ h_reads' = h_reads
           /\ screen_buffer' = screen_buffer
           /\ Len(output_buffer') <= Len(output_buffer)]_vars

\* kill() has returned; it cancelled a read loop whose select on the master
\* fd was under way, and bytes of the child were still unread
C16_Witness ==
    /\ killed
    /\ kill_pc = "idle"
    /\ \E t \in TaskIds : /\ tasks[t] = "cancelled"
                          /\ sel_fd[t] # None
                          /\ pty_buf[sel_fd[t]] # <<>>

\* the read loop t, told that the fd is readable, finds nothing to read
EofObserved(t) ==
    /\ tasks[t] \in {"ready", "ebadf"}
    /\ master_fd # None
    /\ tasks[t] = "ready" => (~fd_open[master_fd] \/ pty_buf[master_fd] = <<>>)

\* C17: a read loop that observes EOF marks the Terminal not running and ends
\* by itself, never cancelled; an ended loop stays ended and reads no more.
C17_EofSelfTerminates ==
    /\ [][\A t \in TaskIds :
             /\ (EofObserved(t) /\ LoopResume(t)) =>
                    (~running' /\ tasks'[t] = "done")
             /\ tasks[t] = "done" =>
                    /\ tasks'[t] = "done"
                    /\ \A i \in (Len(h_reads) + 1)..Len(h_reads') :
                           h_reads'[i].task # t]_vars
    /\ [](\A t \in TaskIds : tasks[t] = "done" => cancels[t] = 0)

\* a read loop read a chunk, then observed EOF and ended
C17_Witness ==
    /\ teardown = "eof"
    /\ ~running
    /\ \E t \in TaskIds : /\ tasks[t] = "done"
                          /\ \E i \in 1..Len(h_reads) : h_reads[i].task = t

\* C18: is_alive() returns false before any spawn, and once it has returned
\* false it returns false until the next spawn; after kill() and after the
\* read loop observed EOF it returns false, even while the child runs.
C18_DeadIsCached ==
    (pid = None \/ h_dead \/ killed \/ teardown = "eof") =>
        ~is_alive(running, pid, ChildOf(pid)).ret

\* is_alive() returned false on a Terminal whose child is still running: its
\* read loop had taken an empty read for the end of the child
C18_Witness ==
    /\ h_dead
    /\ pid # None
    /\ child[pid] = "running"

\* the child of the last spawn had exited with status zero at the startup
\* check, and neither is_alive nor kill was called since
ExitedAtStartup ==
    /\ pid # None
    /\ child[pid] = "reaped"
    /\ ~h_dead
    /\ teardown \in {"none", "eof"}

\* the bytes the child of the last spawn wrote that no read has returned
Unread == IF pid = None THEN <<>> ELSE pty_buf[pid]

\* C19: a spawn whose child has exited with a non-zero status at the startup
\* check raises and leaves the Terminal not running with its fd closed; when
\* the status is zero spawn returns, start_reading can be started, and what
\* the child wrote is read by the loop and handed to the sink, unless kill()
\* tears the Terminal down first.
C19_StartupCheck ==
    /\ [][\A ign \in BOOLEAN, out \in BOOLEAN :
             /\ (~running /\ Spawn("exitN", ign, out)) =>
                    /\ exc' = "RuntimeError"
                    /\ ~running'
                    /\ master_fd' = None
                    /\ ~fd_open'[pid']
             /\ (~running /\ Spawn("exit0", ign, out)) =>
                    /\ exc' = ""
                    /\ running'
                    /\ master_fd' # None
                    /\ fd_open'[master_fd']
                    /\ pty_buf'[master_fd'] = h_emitted'[master_fd']]_vars
    /\ [][(ExitedAtStartup /\ teardown = "none" /\ StartReading) =>
              (exc' = "" /\ read_task' # None)]_vars
    /\ (IF ExitedAtStartup /\ teardown = "none"
        THEN Unread # <<>> /\ \E t \in TaskIds : tasks[t] \in ActiveStates
        ELSE FALSE)
           ~> (Unread = <<>> \/ killed)

\* C20: write on a Terminal that is not running raises RuntimeError, writes
\* nothing and changes nothing; a Terminal never spawned, killed, or whose end
\* the read loop or is_alive observed is not running.
C20_WriteNotRunning ==
    /\ [][\A data \in {<<"a">>} :
             ((~running \/ master_fd = None) /\ Write(data)) =>
                 /\ exc' = "RuntimeError"
                 /\ UNCHANGED <<screenVars, running, master_fd, pid, read_task,
                                kill_pc, taskVars, osVars, sessVars,
                                histVars>>]_vars
    /\ []((pid = None \/ killed \/ teardown = "eof" \/ h_dead) => ~running)

\* a write went through while the child ran; after kill() a write was refused
C20_Witness ==
    /\ exc = "RuntimeError"
    /\ exc_call = "write"
    /\ killed
    /\ pid # None
    /\ h_written[pid] # <<>>

\* C10: kill() always returns: a kill blocked in os.waitpid comes back.
C10_KillReturns == (kill_pc = "waitpid") ~> (kill_pc = "idle")

(***************************************************************************)
(* C21: the Input operation on a session that is unknown or dead completes *)
(* without surfacing an error to the caller and changes nothing.  The      *)
(* handler of POST /sessions/{id}/input raises HTTPException(404) for an   *)
(* unknown id and lets the RuntimeError of Terminal.write out for a        *)
(* session whose Terminal no longer runs.                                  *)
(***************************************************************************)
C21_InputNoOp ==
    reg_ret.call = "write_input" => reg_ret.exc = ""

\* the read loops started on the Terminal since it was made
Readers == {t \in TaskIds : tasks[t] # "none"}

\* the bytes w written to the terminal g have been read from it, in order, and
\* appended to the raw buffer, where a drain finds them or has found them
EchoAppended(g, w) ==
    LET got == ReadsFrom(h_reads, g) IN
    /\ Len(got) >= Len(w)
    /\ SubSeq(got, 1, Len(w)) = w
    /\ h_drained \o Join(output_buffer) = Join(ReadChunks)

(***************************************************************************)
(* C22: when the child echoes its input and one read loop has been started *)
(* on the Terminal and waits on the master fd of that child, the bytes     *)
(* written with write are eventually read back and appended to the raw     *)
(* buffer that get_output drains, for as long as the child runs and no     *)
(* second read loop is started.                                            *)
(***************************************************************************)
C22_EchoReachesDrain ==
    \A g \in Gens : \A w \in SeqsUpTo({"a"}, MaxWrites) \ {<<>>} :
        (/\ pid = g
         /\ running
         /\ child[g] = "running"
         /\ h_written[g] = w
         /\ Cardinality(Readers) = 1
         /\ \A t \in Readers : /\ tasks[t] \in ActiveStates
                                /\ (tasks[t] = "created" \/ sel_fd[t] = g))
            ~> (\/ EchoAppended(g, w)
                \/ child[g] # "running"
                \/ Cardinality(Readers) > 1)

\* the bytes written were echoed, read and drained while the child runs
C22_Witness ==
    /\ pid # None
    /\ child[pid] = "running"
    /\ h_written[pid] # <<>>
    /\ Cardinality(Readers) = 1
    /\ h_drained = h_written[pid]
    /\ last_out = h_written[pid]

(***************************************************************************)
(* Properties of the ScreenBuffer operations (SpecScreen)                  *)
(***************************************************************************)
\* a ScreenBuffer nothing was fed to
Fresh == screen_buffer = NewScreenBuffer(Rows, Cols)

\* the cell (row, col), 0-indexed, of a ScreenBuffer
Cell(sb, row, col) == sb.screen[row + 1][col + 1]

\* input character k (0-indexed) of a text
CharAt(output, k) == output[k + 1]

\* the input positions of a text that land in column col of the last row:
\* the one the layout gives it, and those past the end of the grid, which
\* start again at column 0 of that row
LastRowHits(output, col) ==
    {k \in 0..(Len(output) - 1) :
        /\ k >= (Rows - 1) * Cols
        /\ (k - (Rows - 1) * Cols) % Cols = col}

SetMax(S) == CHOOSE m \in S : \A k \in S : k <= m

C24_WrapAtCols ==
    [][LET output == Run(Cols + 1)
           r  == screen_buffer.cursor_row
           nr == IF r < Rows - 1 THEN r + 1 ELSE Rows - 1
       IN  (screen_buffer.cursor_col = 0 /\ ProcessOutput(output)) =>
               /\ Cell(screen_buffer', nr, 0) = CharAt(output, Cols)
               /\ screen_buffer'.cursor_row =
                      IF Cols > 1 THEN nr ELSE Min(nr + 1, Rows - 1)
               /\ screen_buffer'.cursor_col = IF Cols > 1 THEN 1 ELSE 0
               /\ \A c \in 0..(Cols - 1) :
                      (r < Rows - 1 \/ c > 0) =>
                          Cell(screen_buffer', r, c) = CharAt(output, c)
               /\ \A q \in 0..(Rows - 1) : \A c \in 0..(Cols - 1) :
                      (q # r /\ ~(q = nr /\ c = 0)) =>
                          Cell(screen_buffer', q, c) = Cell(screen_buffer, q, c)]_vars

\* cols + 1 characters were written from column 0 of the last row: the extra
\* character stands at column 0 of that row and the rows above are untouched
C24_Witness ==
    /\ sb_calls = 2
    /\ Cell(screen_buffer, Rows - 1, 0) = CharAt(Run(Cols + 1), Cols)
    /\ \A c \in 1..(Cols - 1) :
           Cell(screen_buffer, Rows - 1, c) = CharAt(Run(Cols + 1), c)
    /\ \A r \in 0..(Rows - 2) : screen_buffer.screen[r + 1] = BlankRow(Cols)
    /\ screen_buffer.cursor_row = Rows - 1
    /\ screen_buffer.cursor_col = 1

GridBlank(sb) == sb.screen = [r \in 1..sb.rows |-> BlankRow(sb.cols)]

\* C26: ESC[2J blanks every cell of the grid and moves the cursor to the
\* origin, and it is idempotent: issued twice, in one call or in two, it
\* leaves the buffer that issuing it once leaves.
C26_ClearIdempotent ==
    [][/\ ProcessOutput(ClearScreen) =>
              /\ GridBlank(screen_buffer')
              /\ screen_buffer'.cursor_row = 0
              /\ screen_buffer'.cursor_col = 0
              /\ screen_buffer'.saved_cursor = screen_buffer.saved_cursor
              /\ process_output(screen_buffer', ClearScreen).sb = screen_buffer'
       /\ ProcessOutput(ClearScreen \o ClearScreen) =>
              screen_buffer' = process_output(screen_buffer, ClearScreen).sb]_vars

\* the grid is blank and the cursor at the origin after a call that followed
\* one which had written text and saved the cursor away from the origin
C26_Witness ==
    /\ sb_calls = 2
    /\ GridBlank(screen_buffer)
    /\ screen_buffer.cursor_row = 0
    /\ screen_buffer.cursor_col = 0
    /\ screen_buffer.saved_cursor = <<0, 1>>

\* C27: the cursor saved by ESC[s at (r, c) is the one ESC[u restores,
\* whatever was written and wherever the cursor was moved in between: the
\* next printable character is written at (r, c) and the cursor then stands
\* behind it; this holds within one call and when the restore comes in a
\* later call; ESC[s and ESC[u change no cell of the grid.
C27_SaveRestore ==
    [][/\ \A pre \in {<<>>, <<"x">>} : \A mid \in Between :
              ProcessOutput(pre \o SaveSeq \o mid \o RestoreSeq \o <<"y">>) =>
                  LET at == process_output(screen_buffer, pre).sb
                      r  == at.cursor_row
                      c  == at.cursor_col
                  IN  /\ Cell(screen_buffer', r, c) = "y"
                      /\ screen_buffer'.saved_cursor = <<r, c>>
                      /\ screen_buffer'.cursor_row =
                             IF c + 1 < Cols THEN r ELSE Min(r + 1, Rows - 1)
                      /\ screen_buffer'.cursor_col =
                             IF c + 1 < Cols THEN c + 1 ELSE 0
       /\ ProcessOutput(SaveSeq) =>
              /\ screen_buffer'.screen = screen_buffer.screen
              /\ screen_buffer'.cursor_row = screen_buffer.cursor_row
              /\ screen_buffer'.cursor_col = screen_buffer.cursor_col
              /\ screen_buffer'.saved_cursor =
                     <<screen_buffer.cursor_row, screen_buffer.cursor_col>>
       /\ ProcessOutput(RestoreSeq) =>
              /\ screen_buffer'.screen = screen_buffer.screen
              /\ screen_buffer'.saved_cursor = screen_buffer.saved_cursor
       /\ (screen_buffer.saved_cursor # NoCursor
              /\ ProcessOutput(RestoreSeq \o <<"x">>)) =>
              Cell(screen_buffer', screen_buffer.saved_cursor[1],
                   screen_buffer.saved_cursor[2]) = "x"]_vars

\* the cursor was saved behind an x, two more characters were written, and
\* the marker written after the restore stands at the saved position
C27_Witness ==
    /\ sb_calls = 1
    /\ screen_buffer.saved_cursor = <<0, 1>>
    /\ Cell(screen_buffer, 0, 0) = "x"
    /\ Cell(screen_buffer, 0, 1) = "y"
    /\ Cell(screen_buffer, 0, 2) = "x"
    /\ screen_buffer.cursor_row = 0
    /\ screen_buffer.cursor_col = 2

EraseSeqs == {<<ESC, "[">> \o body :
                 body \in {<<"K">>, <<"0", "K">>, <<"1", "K">>, <<"2", "K">>,
                           <<"J">>, <<"0", "J">>}}

\* whether the cell (q, k) is in the region the sequence erases when the
\* cursor is at (r, c)
InErased(seq, r, c, q, k) ==
    LET body == SubSeq(seq, 3, Len(seq)) IN
    CASE body \in {<<"K">>, <<"0", "K">>} -> q = r /\ k >= c
      [] body = <<"1", "K">>              -> q = r /\ k <= c
      [] body = <<"2", "K">>              -> q = r
      [] body \in {<<"J">>, <<"0", "J">>} -> (q = r /\ k >= c) \/ q > r

\* C29: an erase sequence blanks exactly its region and never moves the
\* cursor: with the cursor at (r, c), ESC[K and ESC[0K blank row r from
\* column c on, ESC[1K blanks row r up to and including column c, ESC[2K
\* blanks row r, ESC[J and ESC[0J blank row r from column c on and every row
\* below; every other cell, the cursor and the saved cursor stay as they were.
C29_EraseRegions ==
    [][\A seq \in EraseSeqs :
          ProcessOutput(seq) =>
              /\ screen_buffer'.cursor_row = screen_buffer.cursor_row
              /\ screen_buffer'.cursor_col = screen_buffer.cursor_col
              /\ screen_buffer'.saved_cursor = screen_buffer.saved_cursor
              /\ \A q \in 0..(Rows - 1) : \A k \in 0..(Cols - 1) :
                     Cell(screen_buffer', q, k) =
                         IF InErased(seq, screen_buffer.cursor_row,
                                     screen_buffer.cursor_col, q, k)
                         THEN SP ELSE Cell(screen_buffer, q, k)]_vars

\* a text one character longer than the grid was written and the last row
\* then erased from the cursor on: the row keeps the character before the
\* cursor, the rows above keep theirs
C29_Witness ==
    /\ sb_calls = 2
    /\ \A r \in 0..(Rows - 2) : \A c \in 0..(Cols - 1) :
           Cell(screen_buffer, r, c) = CharAt(Run(Rows * Cols + 1), r * Cols + c)
    /\ Cell(screen_buffer, Rows - 1, 0) = CharAt(Run(Rows * Cols + 1), Rows * Cols)
    /\ \A c \in 1..(Cols - 1) : Cell(screen_buffer, Rows - 1, c) = SP
    /\ screen_buffer.cursor_row = Rows - 1
    /\ screen_buffer.cursor_col = 1

\* n clamped into lo..hi
Clamp(n, lo, hi) == Max(lo, Min(n, hi))

\* C30: ESC[r;cH and ESC[r;cf move the cursor to (r-1, c-1), the 1-indexed
\* parameters taken 0-indexed, with 1 for a parameter that is missing or
\* empty, the result clamped into the grid; no cell of the grid and not the
\* saved cursor is changed.
C30_CursorPosition ==
    [][\A cs \in CupCases : \A final \in {"H", "f"} :
          ProcessOutput(CupSeq(cs.p, final)) =>
              /\ ~sb_raised'
              /\ screen_buffer'.cursor_row = Clamp(cs.row - 1, 0, Rows - 1)
              /\ screen_buffer'.cursor_col = Clamp(cs.col - 1, 0, Cols - 1)
              /\ screen_buffer'.screen = screen_buffer.screen
              /\ screen_buffer'.saved_cursor = screen_buffer.saved_cursor]_vars

\* an x was written at the origin and the cursor then moved to row 2,
\* column 3 (1-indexed)
C30_Witness ==
    /\ sb_calls = 2
    /\ Cell(screen_buffer, 0, 0) = "x"
    /\ \A q \in 0..(Rows - 1) : \A k \in 0..(Cols - 1) :
           (q # 0 \/ k # 0) => Cell(screen_buffer, q, k) = SP
    /\ screen_buffer.cursor_row = 1
    /\ screen_buffer.cursor_col = 2

\* relative moves: the parameter text and the number of cells it stands for
\* (1 when omitted)
RelCases == {[p |-> <<>>,    n |-> 1], [p |-> <<"1">>, n |-> 1],
             [p |-> <<"2">>, n |-> 2], [p |-> <<"9">>, n |-> 9],
             [p |-> <<"0">>, n |-> 0]}
RelSeq(p, final) == <<ESC, "[">> \o p \o <<final>>

\* C31: ESC[nA, ESC[nB, ESC[nC and ESC[nD move the cursor up, down, right and
\* left by n cells, n being 1 when omitted, and stop at the edge of the grid;
\* the other coordinate, every cell of the grid and the saved cursor are
\* unchanged.
C31_RelativeMoves ==
    [][\A cs \in RelCases : \A final \in {"A", "B", "C", "D"} :
          ProcessOutput(RelSeq(cs.p, final)) =>
              LET r == screen_buffer.cursor_row
                  c == screen_buffer.cursor_col
              IN  /\ ~sb_raised'
                  /\ screen_buffer'.cursor_row =
                         CASE final = "A" -> Clamp(r - cs.n, 0, Rows - 1)
                           [] final = "B" -> Clamp(r + cs.n, 0, Rows - 1)
                           [] OTHER -> r
                  /\ screen_buffer'.cursor_col =
                         CASE final = "C" -> Clamp(c + cs.n, 0, Cols - 1)
                           [] final = "D" -> Clamp(c - cs.n, 0, Cols - 1)
                           [] OTHER -> c
                  /\ screen_buffer'.screen = screen_buffer.screen
                  /\ screen_buffer'.saved_cursor = screen_buffer.saved_cursor]_vars

\* cols + 1 letters were written, which left the cursor at (1, 1), and the
\* cursor then moved up one row
C31_Witness ==
    /\ sb_calls = 2
    /\ \A c \in 0..(Cols - 1) : Cell(screen_buffer, 0, c) = CharAt(Run(Cols + 1), c)
    /\ Cell(screen_buffer, 1, 0) = CharAt(Run(Cols + 1), Cols)
    /\ \A c \in 1..(Cols - 1) : Cell(screen_buffer, 1, c) = SP
    /\ screen_buffer.cursor_row = 0
    /\ screen_buffer.cursor_col = 1

\* C32: the dimensions of the ScreenBuffer never change: after any sequence
\* of process_output calls the grid has rows rows of cols cells, and
\* get_screen_lines returns rows strings, each the row without its trailing
\* whitespace, so of length at most cols, and empty for a row that holds
\* nothing but whitespace (never written to, or erased).
C32_FixedDimensions ==
    LET sb    == screen_buffer
        lines == get_screen_lines(sb)
    IN  /\ sb.rows = Rows
        /\ sb.cols = Cols
        /\ DOMAIN sb.screen = 1..Rows
        /\ \A r \in 1..Rows : DOMAIN sb.screen[r] = 1..Cols
        /\ DOMAIN lines = 1..Rows
        /\ \A r \in 1..Rows :
               /\ Len(lines[r]) <= Cols
               /\ lines[r] = SubSeq(sb.screen[r], 1, Len(lines[r]))
               /\ \A c \in (Len(lines[r]) + 1)..Cols :
                      sb.screen[r][c] \in Whitespace
               /\ lines[r] # <<>> => lines[r][Len(lines[r])] \notin Whitespace
               /\ (\A c \in 1..Cols : sb.screen[r][c] \in Whitespace)
                      => lines[r] = <<>>

\* the first row holds an x followed by a vertical tab and its line is "x";
\* the cursor stands inside the last row, whose line is empty
C32_Witness ==
    /\ sb_calls = 2
    /\ screen_buffer.screen[1][1] = "x"
    /\ screen_buffer.screen[1][2] = VT
    /\ get_screen_lines(screen_buffer)[1] = <<"x">>
    /\ screen_buffer.cursor_row = Rows - 1
    /\ screen_buffer.cursor_col > 0
    /\ get_screen_lines(screen_buffer)[Rows] = <<>>

\* C36: '\n' moves the cursor to column 0 of the next row, staying on the
\* last row when it is there, and nothing scrolls; '\r' moves it to column 0
\* of its row; '\b' moves it one column left when it is not at column 0; none
\* of the three changes a cell or the saved cursor.
C36_ControlChars ==
    [][/\ ProcessOutput(<<LF>>) =>
              /\ ~sb_raised'
              /\ screen_buffer' =
                     [screen_buffer EXCEPT !.cursor_row = Min(@ + 1, Rows - 1),
                                           !.cursor_col = 0]
       /\ ProcessOutput(<<CR>>) =>
              /\ ~sb_raised'
              /\ screen_buffer' = [screen_buffer EXCEPT !.cursor_col = 0]
       /\ ProcessOutput(<<BS>>) =>
              /\ ~sb_raised'
              /\ screen_buffer' =
                     [screen_buffer EXCEPT
                         !.cursor_col = IF @ > 0 THEN @ - 1 ELSE @]]_vars

\* cols + 1 letters were written, which left the cursor on the last row at
\* column 1, and the next call left the grid as it was with the cursor at
\* column 0 of the last row
C36_Witness ==
    /\ sb_calls = 2
    /\ \A c \in 0..(Cols - 1) : Cell(screen_buffer, 0, c) = CharAt(Run(Cols + 1), c)
    /\ Cell(screen_buffer, 1, 0) = CharAt(Run(Cols + 1), Cols)
    /\ \A c \in 1..(Cols - 1) : Cell(screen_buffer, 1, c) = SP
    /\ screen_buffer.cursor_row = Rows - 1
    /\ screen_buffer.cursor_col = 0

(***************************************************************************)
(* Chunk boundaries (SpecScreen)                                           *)
(***************************************************************************)
\* the buffer after process_output(a) followed by process_output(b)
InTwoCalls(sb, a, b) == process_output(process_output(sb, a).sb, b).sb

\* C37: wherever a text is split in two, also inside an escape sequence and
\* right after ESC, feeding the two parts in two process_output calls leaves
\* the grid and the cursor as feeding the text in one call does.
C37_ChunkInvariance ==
    [][\A output \in Chunks : \A k \in 0..Len(output) :
          ProcessOutput(output) =>
              LET two == InTwoCalls(screen_buffer, SubSeq(output, 1, k),
                                    SubSeq(output, k + 1, Len(output)))
              IN  /\ two.screen = screen_buffer'.screen
                  /\ two.cursor_row = screen_buffer'.cursor_row
                  /\ two.cursor_col = screen_buffer'.cursor_col]_vars

(***************************************************************************)
(* Properties of the tab character (SpecWide)                              *)
(***************************************************************************)
\* the smallest multiple of 8 greater than the column c
NextTabStop(c) == CHOOSE m \in (c + 1)..(c + 8) : m % 8 = 0

\* C35: a tab writes no cell and moves the cursor to the smallest multiple of
\* 8 greater than its column; when that is not a column of the grid the
\* cursor goes to column 0 of the next row, and stays on the last row when it
\* is there.
C35_Tab ==
    [][ProcessOutput(<<TAB>>) =>
          LET r == screen_buffer.cursor_row
              c == screen_buffer.cursor_col
          IN  /\ ~sb_raised'
              /\ screen_buffer'.screen = screen_buffer.screen
              /\ IF NextTabStop(c) < WideCols
                 THEN /\ screen_buffer'.cursor_row = r
                      /\ screen_buffer'.cursor_col = NextTabStop(c)
                 ELSE /\ screen_buffer'.cursor_row = Min(r + 1, Rows - 1)
                      /\ screen_buffer'.cursor_col = 0]_vars

\* three letters were written on the blank buffer and a tab took the cursor
\* from column 3 to column 8 of the same row
C35_Witness ==
    /\ sb_calls = 2
    /\ \A c \in 0..2 : Cell(screen_buffer, 0, c) = CharAt(Run(3), c)
    /\ \A c \in 3..(WideCols - 1) : Cell(screen_buffer, 0, c) = SP
    /\ screen_buffer.cursor_row = 0
    /\ screen_buffer.cursor_col = 8

(***************************************************************************)
(* Properties of resize and of the signals sent (SpecResize)               *)
(***************************************************************************)
\* the child of the Terminal t has exited
Gone(t) == t.pid # None /\ proc[t.pid] \in {"zombie", "reaped"}

\* what a resize request may change of the session object n: nothing but the
\* rows and cols of its Terminal, which take the values asked for
ResizeFrame(n, rows, cols) ==
    /\ heap'[n].terminal.rows = rows
    /\ heap'[n].terminal.cols = cols
    /\ heap'[n].screen_buffer.screen = heap[n].screen_buffer.screen
    /\ heap'[n].screen_buffer.cursor_row = heap[n].screen_buffer.cursor_row
    /\ heap'[n].screen_buffer.cursor_col = heap[n].screen_buffer.cursor_col
    /\ heap'[n].output_buffer = heap[n].output_buffer

\* the session info shows the rows and cols the Terminal stores
InfoShowsSize ==
    \A id \in Forks :
        GetSessionInfo(id) /\ get_session(id) # None
            => /\ reg_ret'.out.rows = heap[get_session(id)].terminal.rows
               /\ reg_ret'.out.cols = heap[get_session(id)].terminal.cols

C38_ScreenMatchesTerminal ==
    \A id \in DOMAIN sessions :
        /\ heap[sessions[id]].screen_buffer.rows = heap[sessions[id]].terminal.rows
        /\ heap[sessions[id]].screen_buffer.cols = heap[sessions[id]].terminal.cols

\* the pid p was reaped: the startup check of spawn, is_alive() or an
\* earlier kill() took the exit status of the child
Reaped(p) == p # None /\ proc[p] = "reaped"

\* C39: no kill() and no resize() calls os.kill with a pid the Terminal has
\* already reaped, whether the session is resized or deleted.
C39_NoSignalToReaped ==
    [][/\ \A id \in Forks : \A size \in Sizes :
              ResizeTerminal(id, size[1], size[2]) /\ get_session(id) # None
                  => ~Reaped(resize_signals(heap[get_session(id)].terminal,
                                            size[1], size[2]))
       /\ DeleteBegin(1) /\ get_session(req[1].id) # None
              => ~Reaped(SignalTarget(heap[get_session(req[1].id)].terminal))]_vars

(***************************************************************************)
(* Properties of a failed create (SpecRegistry)                            *)
(***************************************************************************)
\* the exceptions spawn raises when pty.fork fails and when the startup
\* check finds a non-zero exit status, the one an exec failure gives
SpawnFailures == {"OSError", "RuntimeError"}

\* spawn returned on the Terminal t: it has the pid and the master fd of a
\* fork that was made
SpawnSucceeded(t) ==
    /\ t.pid # None
    /\ t.pid <= forks
    /\ proc[t.pid] # "none"
    /\ t.master_fd = t.pid \/ (t.master_fd = None /\ ~t.running)

\* C40: a create_session whose spawn raises because pty.fork failed or the
\* child exited at once with a non-zero status adds no entry, leaves
\* list_sessions() and every session as they were and leaves no master fd of
\* the failed session open; every entry of the registry has a Terminal whose
\* spawn returned.
C40_FailedCreate ==
    /\ [][\A rows \in {Rows, -1} :
          \A startup \in {"alive", "exit0", "exitN", "nofork"} :
              (CreateSession(rows, Cols, startup)
                   /\ reg_ret'.exc \in SpawnFailures) =>
                  /\ sessions' = sessions
                  /\ heap' = heap
                  /\ open_fds' = open_fds
                  /\ (forks + 1) \notin open_fds']_vars
    /\ [](\A id \in list_sessions : SpawnSucceeded(heap[sessions[id]].terminal))

\* a create has just failed on the startup check, which closed the fd of the
\* fork, while an earlier session is registered with its fd open
C40_Witness ==
    /\ reg_ret.call = "create"
    /\ reg_ret.exc = "RuntimeError"
    /\ closes[forks] = 1
    /\ proc[forks] = "reaped"
    /\ \E id \in list_sessions : heap[sessions[id]].terminal.master_fd \in open_fds

(***************************************************************************)
(* Properties of the websocket relay (FairSpecRelay)                       *)
(***************************************************************************)
\* the process of the session is dead
ProcessDead == pid # None /\ child[pid] # "running"

\* C34: while the peer stays connected, once the process of the session is
\* dead the relay sends the terminal-closed marker, both its tasks end and
\* the connection is closed, whatever the peer does or does not send; and
\* once the peer is gone the relay drains nothing more from the raw buffer.
C34_RelayCloses ==
    /\ (relay.ws = "open" /\ ProcessDead)
           ~> \/ relay.peer = "gone"
              \/ /\ relay.marker
                 /\ relay.send = "done"
                 /\ relay.recv = "done"
                 /\ relay.ws = "closed"
    /\ [](relay.drained = <<>>)

====
